---- MODULE Spec2Model ----
(***************************************************************************)
(* SearchLight (src/dist/search-light.js, identical in behaviour to        *)
(* src/unnamed/part_001): an in-memory search-and-filter builder.          *)
(*                                                                         *)
(* Text is a sequence of one-character strings, so that trimming,          *)
(* splitting, case folding and joining are computed as String.prototype    *)
(* computes them.  A JavaScript value is a record [ty, s, n]: ty is the    *)
(* type tag, s the text of a string (or the missing-terms text of an       *)
(* injected stats object), n the number (or the relevance of a stats       *)
(* object).  An item is a record [t, s, props]: t is "text", "arr" or      *)
(* "rec", s the text of a text item, props the ordered own properties of   *)
(* an array or record item as [k, v] records.                              *)
(***************************************************************************)
EXTENDS Integers, Sequences, FiniteSets

\* ------------------------------------------------------------------ bounds
\* longest accumulated search text for()/and() may build
MaxTextLen == 4
\* most filters and() may accumulate
MaxFilters == 2
\* most keys in()/or() may accumulate
MaxKeys == 1
\* most own properties an item may grow to through stats injection
MaxItemLen == 3
\* most then()/catch() calls made on an instance
MaxThens == 2

\* ------------------------------------------------------------ text helpers
RECURSIVE Join(_, _)
\* Array.prototype.join over texts
Join(parts, sep) ==
  IF parts = <<>> THEN <<>>
  ELSE IF Len(parts) = 1 THEN parts[1]
  ELSE parts[1] \o sep \o Join(Tail(parts), sep)

\* one character of String.prototype.toLowerCase
lowerChar(c) ==
  CASE c = "A" -> "a"
    [] c = "B" -> "b"
    [] c = "O" -> "o"
    [] OTHER -> c

\* String.prototype.toLowerCase
toLowerCase(s) == [i \in 1..Len(s) |-> lowerChar(s[i])]

RECURSIVE trimStart(_)
trimStart(s) ==
  IF s # <<>> /\ Head(s) = " " THEN trimStart(Tail(s)) ELSE s

RECURSIVE trimEnd(_)
trimEnd(s) ==
  IF s # <<>> /\ s[Len(s)] = " " THEN trimEnd(SubSeq(s, 1, Len(s) - 1)) ELSE s

\* String.prototype.trim
trim(s) == trimEnd(trimStart(s))

RECURSIVE splitRec(_, _, _)
\* scan left to right; cur is the piece being collected
splitRec(rest, sep, cur) ==
  IF Len(rest) < Len(sep) THEN << cur \o rest >>
  ELSE IF SubSeq(rest, 1, Len(sep)) = sep
       THEN << cur >> \o splitRec(SubSeq(rest, Len(sep) + 1, Len(rest)), sep, <<>>)
       ELSE splitRec(Tail(rest), sep, Append(cur, Head(rest)))

\* String.prototype.split(separator): an empty separator splits into the
\* single characters (none for the empty text); otherwise the pieces between
\* the non-overlapping occurrences found left to right
split(s, sep) ==
  IF sep = <<>> THEN [i \in 1..Len(s) |-> << s[i] >>]
  ELSE splitRec(s, sep, <<>>)

RECURSIVE digits(_)
\* Number.prototype.toString of a natural number
digits(n) ==
  IF n < 10 THEN << <<"0","1","2","3","4","5","6","7","8","9">>[n + 1] >>
  ELSE digits(n \div 10) \o digits(n % 10)

\* ------------------------------------------------------------- JS values
Str(s) == [ty |-> "str", s |-> s, n |-> 0]
Num(n) == [ty |-> "num", s |-> <<>>, n |-> n]
Undefined == [ty |-> "undefined", s |-> <<>>, n |-> 0]
\* the { relevance, missing } object of getItemInject_
StatsObj(rel, missing) == [ty |-> "obj", s |-> missing, n |-> rel]

ObjectText == <<"[","o","b","j","e","c","t"," ","O","b","j","e","c","t","]">>

\* ToString of a value, as string concatenation applies it
ToString(v) ==
  CASE v.ty = "str" -> v.s
    [] v.ty = "num" -> IF v.n < 0 THEN <<"-">> \o digits(-v.n) ELSE digits(v.n)
    [] v.ty = "obj" -> ObjectText
    [] OTHER -> <<"u","n","d","e","f","i","n","e","d">>

\* an element's text inside Array.prototype.join: undefined and null are empty
JoinText(v) == IF v.ty \in {"undefined", "null"} THEN <<>> ELSE ToString(v)

\* the characters the model's texts use, in ascending UTF-16 code order
CodeOrder ==
  <<" ", "-", "0", "1", "2", "3", "4", "5", "6", "7", "8", "9", "=", "A", "B",
    "O", "[", "]", "a", "b", "c", "d", "e", "f", "i", "j", "n", "o", "t", "u", "|">>

charCode(c) == CHOOSE i \in 1..Len(CodeOrder) : CodeOrder[i] = c

RECURSIVE textLess(_, _)
\* a < b on two strings: code-unit lexicographic order
textLess(a, b) ==
  IF b = <<>> THEN FALSE
  ELSE IF a = <<>> THEN TRUE
  ELSE IF Head(a) = Head(b) THEN textLess(Tail(a), Tail(b))
  ELSE charCode(Head(a)) < charCode(Head(b))

RECURSIVE digitsValue(_, _)
digitsValue(s, acc) ==
  IF s = <<>> THEN acc
  ELSE digitsValue(Tail(s), acc * 10 + (charCode(Head(s)) - charCode("0")))

isDigits(s) == \A i \in 1..Len(s) : s[i] \in {"0","1","2","3","4","5","6","7","8","9"}

\* ToNumber: [nan, n]; a string is trimmed, empty is 0, digits are their
\* value, anything else NaN
ToNumber(v) ==
  CASE v.ty = "num" -> [nan |-> FALSE, n |-> v.n]
    [] v.ty = "null" -> [nan |-> FALSE, n |-> 0]
    [] v.ty = "str" ->
         IF isDigits(trim(v.s))
         THEN [nan |-> FALSE, n |-> digitsValue(trim(v.s), 0)]
         ELSE [nan |-> TRUE, n |-> 0]
    [] OTHER -> [nan |-> TRUE, n |-> 0]

\* ToPrimitive: an object becomes its text
ToPrimitive(v) == IF v.ty = "obj" THEN Str(ObjectText) ELSE v

\* a === b (two distinct objects are never identical)
strictEquals(a, b) ==
  /\ a.ty = b.ty
  /\ CASE a.ty = "str" -> a.s = b.s
       [] a.ty = "num" -> a.n = b.n
       [] a.ty = "obj" -> FALSE
       [] OTHER -> TRUE

\* a == b
looseEquals(a, b) ==
  IF a.ty = b.ty THEN strictEquals(a, b)
  ELSE IF {a.ty, b.ty} = {"undefined", "null"} THEN TRUE
  ELSE IF a.ty \in {"undefined", "null"} \/ b.ty \in {"undefined", "null"} THEN FALSE
  ELSE LET pa == ToPrimitive(a)
           pb == ToPrimitive(b)
       IN IF pa.ty = "str" /\ pb.ty = "str" THEN pa.s = pb.s
          ELSE /\ ~ToNumber(pa).nan
               /\ ~ToNumber(pb).nan
               /\ ToNumber(pa).n = ToNumber(pb).n

\* a < b
lessThan(a, b) ==
  LET pa == ToPrimitive(a)
      pb == ToPrimitive(b)
  IN IF pa.ty = "str" /\ pb.ty = "str" THEN textLess(pa.s, pb.s)
     ELSE /\ ~ToNumber(pa).nan
          /\ ~ToNumber(pb).nan
          /\ ToNumber(pa).n < ToNumber(pb).n

\* a <= b: true when b < a is false and neither side is NaN
lessOrEqual(a, b) ==
  LET pa == ToPrimitive(a)
      pb == ToPrimitive(b)
  IN IF pa.ty = "str" /\ pb.ty = "str" THEN ~textLess(pb.s, pa.s)
     ELSE /\ ~ToNumber(pa).nan
          /\ ~ToNumber(pb).nan
          /\ ToNumber(pa).n <= ToNumber(pb).n

\* ------------------------------------------------------------------ items
TextItem(s) == [t |-> "text", s |-> s, props |-> <<>>]
ArrItem(vals) ==
  [t |-> "arr", s |-> <<>>,
   props |-> [i \in 1..Len(vals) |-> [k |-> digits(i - 1), v |-> vals[i]]]]
RecItem(props) == [t |-> "rec", s |-> <<>>, props |-> props]
Prop(name, v) == [k |-> name, v |-> v]

\* item[key]: the own property named ToString(key), else undefined; a text
\* item is never indexed by the code paths modelled
getProperty(item, key) ==
  LET name == ToString(key)
      hits == {i \in 1..Len(item.props) : item.props[i].k = name}
  IN IF hits = {} THEN Undefined
     ELSE item.props[CHOOSE i \in hits : TRUE].v

\* ------------------------------------------------------ instance (search)
\* state_ of a new instance, before collection_ runs (search, lines 82-101);
\* aliased records that state_.matches and state_.allItems are one array
InitialState ==
  [matches |-> <<>>, partial |-> <<>>, allItems |-> <<>>, aliased |-> FALSE,
   searchText |-> <<>>, searchTerms |-> <<>>, keys |-> <<>>, filters |-> <<>>,
   threshold |-> 0, error |-> FALSE, errorMessage |-> <<>>, index |-> 0, lastIndex |-> 0,
   totalMatches |-> 0, ready |-> FALSE, complete |-> FALSE, searched |-> FALSE,
   collection |-> <<>>]

\* settings_ of a new instance (search, lines 107-119)
InitialSettings ==
  [collectionType |-> "array", case |-> FALSE, baseThreshold |-> 0,
   sort |-> FALSE, customSort |-> "null",
   inject |-> [property |-> <<"s","e","a","r","c","h","R","e","s","u","l","t","s">>,
               enabled |-> FALSE]]

\* functions_.collection_: input is [shape, entries]; shape "array" or
\* "object" keeps the entries as the key -> item Map, any other shape (the
\* typeof of a primitive) records the error and its message and keeps an
\* empty Map
collection_(st, input) ==
  [st EXCEPT !.error = IF input.shape \in {"array", "object"} THEN st.error ELSE TRUE,
             !.errorMessage = IF input.shape \in {"array", "object"} THEN st.errorMessage
                              ELSE <<"Invalid collection type: ", input.shape>>,
             !.collection = IF input.shape \in {"array", "object"}
                            THEN input.entries ELSE <<>>,
             !.complete = FALSE,
             !.searched = FALSE]

\* functions_.collection_ throws for null: typeof null is 'object', and
\* Object.keys(null) is a TypeError raised before anything is assigned
collectionThrows(input) == input.shape = "null"

collectionType_(se, input) ==
  IF input.shape = "object" THEN [se EXCEPT !.collectionType = "object"] ELSE se

\* Map.prototype.get on state_.collection
collectionGet(coll, key) ==
  coll[CHOOSE i \in 1..Len(coll) : coll[i].key = key].item

\* ---------------------------------------------------- constraint builders
\* and() leaving the ready flag set
and_KeepsReady(st, constraint) ==
  LET cleared == [st EXCEPT !.complete = FALSE, !.searched = FALSE]
      operator == IF constraint.c2.ty = "undefined" THEN Str(<<"=","=">>) ELSE constraint.c1
      value == IF constraint.c2.ty = "undefined" THEN constraint.c1 ELSE constraint.c2
  IN CASE constraint.form = "text" ->
            [cleared EXCEPT !.searchText = trim(st.searchText \o <<" ">> \o constraint.text)]
       [] constraint.form \in {"array", "object"} ->
            [cleared EXCEPT !.filters = Append(st.filters, <<constraint.c0, operator, value>>)]
       [] OTHER -> cleared

\* the text branch and the filter branch of and(); a constraint is
\* [form, text, c0, c1, c2]: form "text", "array" (c0..c2 its elements),
\* "object" (c0..c2 its key, operator, value) or "other"
and_(st, constraint) ==
  LET cleared == [st EXCEPT !.ready = FALSE, !.complete = FALSE, !.searched = FALSE]
      operator == IF constraint.c2.ty = "undefined" THEN Str(<<"=","=">>) ELSE constraint.c1
      value == IF constraint.c2.ty = "undefined" THEN constraint.c1 ELSE constraint.c2
  IN CASE constraint.form = "text" ->
            [cleared EXCEPT !.searchText = trim(st.searchText \o <<" ">> \o constraint.text)]
       [] constraint.form \in {"array", "object"} ->
            [cleared EXCEPT !.filters = Append(st.filters, <<constraint.c0, operator, value>>)]
       [] OTHER -> cleared

\* and() throws for null: typeof null is 'object', null is not an array, and
\* reading constraint.key is a TypeError raised after the flags are cleared
andThrows(constraint) == constraint.form = "null"

\* for() keeping the filters accumulated so far
for_KeepsFilters(st, constraint) ==
  and_([st EXCEPT !.searchText = <<>>], constraint)

for_(st, constraint) ==
  and_([st EXCEPT !.searchText = <<>>, !.filters = <<>>], constraint)

\* or() leaving the searched and complete flags set
or_KeepsCache(st, keys) ==
  [st EXCEPT !.ready = FALSE, !.keys = st.keys \o keys.list]

\* or(): keys is [form, list]: form "string" pushes the one key, any other
\* form pushes every element of the list
or_(st, keys) ==
  [st EXCEPT !.ready = FALSE, !.complete = FALSE, !.searched = FALSE,
             !.keys = st.keys \o keys.list]

in_(st, keys) == or_([st EXCEPT !.keys = <<>>], keys)

\* ------------------------------------------------------- relevance engine
\* updateConstraints_ raising the threshold by one for any number of filters
updateConstraints_CountsFiltersOnce(st, se) ==
  IF st.ready THEN st
  ELSE LET terms == IF st.searchText = <<>> THEN <<>>
                    ELSE split(IF se.case THEN st.searchText
                               ELSE toLowerCase(st.searchText), <<" ">>)
       IN [st EXCEPT !.searchTerms = terms,
                     !.threshold = se.baseThreshold
                                   + (IF Len(st.filters) > 0 THEN 1 ELSE 0)
                                   + (IF Len(terms) > 0 THEN 1 ELSE 0),
                     !.ready = TRUE]

\* functions_.updateConstraints_
updateConstraints_(st, se) ==
  IF st.ready THEN st
  ELSE LET terms == IF st.searchText = <<>> THEN <<>>
                    ELSE split(IF se.case THEN st.searchText
                               ELSE toLowerCase(st.searchText), <<" ">>)
       IN [st EXCEPT !.searchTerms = terms,
                     !.threshold = se.baseThreshold + Len(st.filters)
                                   + (IF Len(terms) > 0 THEN 1 ELSE 0),
                     !.ready = TRUE]

\* functions_.isConstrained: its value; the state it leaves is
\* updateConstraints_(st, se)
isConstrained(st, se) ==
  LET u == updateConstraints_(st, se)
  IN Len(u.searchTerms) # 0 \/ Len(u.filters) # 0

\* search_ counting every position at which the term occurs, overlapping
\* occurrences included
search_CountsOverlaps(match, subject, term) ==
  LET relevance == Cardinality({i \in 1..(Len(subject) - Len(term) + 1) :
                                  SubSeq(subject, i, i + Len(term) - 1) = term})
  IN IF relevance # 0
     THEN <<match[1], match[2] + relevance, match[3]>>
     ELSE <<match[1], match[2], match[3] \o <<" ">> \o term>>

\* iterators_.search_ on match = <<key, relevance, missing>>
search_(match, subject, term) ==
  LET relevance == Len(split(subject, term)) - 1
  IN IF relevance # 0
     THEN <<match[1], match[2] + relevance, match[3]>>
     ELSE <<match[1], match[2], match[3] \o <<" ">> \o term>>

\* the comparison of iterators_.filter_ for one operator; "invalid" when the
\* operator is none of the eight
filterTest(operator, left, value) ==
  CASE operator = Str(<<"=","=">>) -> looseEquals(left, value)
    [] operator = Str(<<"=","=","=">>) -> strictEquals(left, value)
    [] operator = Str(<<"!","=">>) -> ~looseEquals(left, value)
    [] operator = Str(<<"!","=","=">>) -> ~strictEquals(left, value)
    [] operator = Str(<<">">>) -> lessThan(value, left)
    [] operator = Str(<<">","=">>) -> lessOrEqual(value, left)
    [] operator = Str(<<"<">>) -> lessThan(left, value)
    [] operator = Str(<<"<","=">>) -> lessOrEqual(left, value)
    [] OTHER -> FALSE

\* iterators_.filter_
filter_(item, match, filter) ==
  IF item.t # "text" /\ filterTest(filter[2], getProperty(item, filter[1]), filter[3])
  THEN <<match[1], match[2] + 1, match[3]>>
  ELSE match

\* iterators_.property_: item[property] || null
property_(item, property) ==
  LET v == getProperty(item, Str(property))
  IN IF \/ v.ty \in {"undefined", "null"}
        \/ (v.ty = "str" /\ v.s = <<>>)
        \/ (v.ty = "num" /\ v.n = 0)
     THEN [ty |-> "null", s |-> <<>>, n |-> 0]
     ELSE v

RECURSIVE reduceProperties_(_, _, _)
\* Object.keys(item).reduce(iterators_.reduceProperties_, subject)
reduceProperties_(props, subject, i) ==
  IF i > Len(props) THEN subject
  ELSE reduceProperties_(props, subject \o <<"|">> \o ToString(props[i].v), i + 1)

\* the subject string of calculateRelevance_ (lines 740-759)
subjectOf(item, st, se) ==
  LET raw == IF item.t = "text" THEN item.s
             ELSE IF Len(st.keys) # 0
                  THEN Join([i \in 1..Len(st.keys) |->
                               JoinText(property_(item, st.keys[i]))], <<"|">>)
                  ELSE IF item.t = "arr"
                       THEN Join([i \in 1..Len(item.props) |->
                                    JoinText(item.props[i].v)], <<"|">>)
                       ELSE reduceProperties_(item.props, <<>>, 1)
  IN IF se.case THEN raw ELSE toLowerCase(raw)

RECURSIVE applyFilters(_, _, _, _)
applyFilters(item, match, filters, i) ==
  IF i > Len(filters) THEN match
  ELSE applyFilters(item, filter_(item, match, filters[i]), filters, i + 1)

RECURSIVE applyTerms(_, _, _, _)
applyTerms(match, subject, terms, i) ==
  IF i > Len(terms) THEN match
  ELSE applyTerms(search_(match, subject, terms[i]), subject, terms, i + 1)

\* the match record calculateRelevance_ builds for one item (lines 733-763)
matchOf(st, se, item, key) ==
  applyTerms(applyFilters(item, <<key, 0, <<>> >>, st.filters, 1),
             subjectOf(item, st, se), st.searchTerms, 1)

\* calculateRelevance_ with the partial branch falling through into the
\* full-match branch
calculateRelevance_FallsThrough(st, se, item, key) ==
  LET match == matchOf(st, se, item, key)
      pushed == [st EXCEPT !.allItems = Append(st.allItems, match)]
  IN IF match[2] = 0 THEN pushed
     ELSE IF match[2] < st.threshold
          THEN [pushed EXCEPT !.partial = Append(pushed.partial, match),
                              !.matches = Append(pushed.matches, match)]
          ELSE [pushed EXCEPT !.matches = Append(pushed.matches, match)]

\* iterators_.calculateRelevance_: score the item and push its record
calculateRelevance_(st, se, item, key) ==
  LET match == matchOf(st, se, item, key)
      pushed == [st EXCEPT !.allItems = Append(st.allItems, match)]
  IN IF match[2] = 0 THEN pushed
     ELSE IF match[2] < st.threshold
          THEN [pushed EXCEPT !.partial = Append(pushed.partial, match)]
          ELSE [pushed EXCEPT !.matches = Append(pushed.matches, match)]

RECURSIVE forEachItem(_, _, _)
\* state_.collection.forEach(calculateRelevance_)
forEachItem(st, se, i) ==
  IF i > Len(st.collection) THEN st
  ELSE forEachItem(calculateRelevance_(st, se, st.collection[i].item,
                                       st.collection[i].key), se, i + 1)

\* iterators_.emptyMatch_
emptyMatch_(key) == <<key, 0, <<>> >>

\* performSearch_ without the reset of partial in the unconstrained branch
performSearch_KeepsPartial(st, se) ==
  LET u == updateConstraints_(st, se)
  IN IF isConstrained(st, se)
     THEN [forEachItem([u EXCEPT !.allItems = <<>>, !.matches = <<>>,
                                 !.partial = <<>>, !.aliased = FALSE], se, 1)
             EXCEPT !.searched = TRUE]
     ELSE LET all == [i \in 1..Len(u.collection) |-> emptyMatch_(u.collection[i].key)]
          IN [u EXCEPT !.allItems = all, !.matches = all,
                       !.aliased = TRUE, !.searched = TRUE]

\* functions_.performSearch_
performSearch_(st, se) ==
  LET u == updateConstraints_(st, se)
  IN IF isConstrained(st, se)
     THEN [forEachItem([u EXCEPT !.allItems = <<>>, !.matches = <<>>,
                                 !.partial = <<>>, !.aliased = FALSE], se, 1)
             EXCEPT !.searched = TRUE]
     ELSE LET all == [i \in 1..Len(u.collection) |-> emptyMatch_(u.collection[i].key)]
          IN [u EXCEPT !.allItems = all, !.matches = all, !.partial = <<>>,
                       !.aliased = TRUE, !.searched = TRUE]

\* --------------------------------------------------------- result sorter
\* iterators_.sortComparator_, with the boolean of the tie branch converted
\* to a number as Array.prototype.sort converts it (true 1, false 0)
sortComparator_(matchA, matchB) ==
  IF matchB[2] > matchA[2] THEN 1
  ELSE IF matchB[2] = matchA[2]
       THEN (IF matchB[1] < matchA[1] THEN 1 ELSE 0)
       ELSE -1

\* the caller-supplied comparators the model offers to sortUsing, called as
\* fn(getItem, matchA, matchB): "byKeyDesc" orders by key, highest first;
\* "byItemN" is (getItem, a, b) => a.n - b.n, written for two items: a match
\* record has no property n, undefined - undefined is NaN, and sort takes a
\* NaN result as 0
customCompare(fn, matchA, matchB) ==
  IF fn = "byKeyDesc" THEN matchB[1] - matchA[1] ELSE 0

compare(fn, matchA, matchB) ==
  IF fn = "sortComparator_" THEN sortComparator_(matchA, matchB)
  ELSE customCompare(fn, matchA, matchB)

\* Array.prototype.sort is stable; which argument order it calls the
\* comparator in is the engine's choice.  movesBefore: the later element x
\* is placed before the earlier element y.  laterFirst engines (V8) test
\* compare(x, y) < 0, the others test compare(y, x) > 0.
movesBefore(fn, laterFirst, x, y) ==
  IF laterFirst THEN compare(fn, x, y) < 0 ELSE compare(fn, y, x) > 0

RECURSIVE insertSorted(_, _, _, _)
insertSorted(sorted, x, fn, laterFirst) ==
  IF sorted = <<>> THEN << x >>
  ELSE IF movesBefore(fn, laterFirst, x, sorted[Len(sorted)])
       THEN Append(insertSorted(SubSeq(sorted, 1, Len(sorted) - 1), x, fn, laterFirst),
                   sorted[Len(sorted)])
       ELSE Append(sorted, x)

RECURSIVE arraySortFrom(_, _, _, _, _)
arraySortFrom(list, i, sorted, fn, laterFirst) ==
  IF i > Len(list) THEN sorted
  ELSE arraySortFrom(list, i + 1, insertSorted(sorted, list[i], fn, laterFirst),
                     fn, laterFirst)

\* Array.prototype.sort(fn)
arraySort(list, fn, laterFirst) == arraySortFrom(list, 1, <<>>, fn, laterFirst)

\* performSort_ applying the custom comparator only inside the test of the
\* default sort (sort set, constrained, non-empty)
sortedList_CustomOnlyWhenSorted(st, se, laterFirst, matches) ==
  IF se.sort /\ isConstrained(st, se) /\ Len(matches) # 0
  THEN IF se.customSort # "null"
       THEN arraySort(arraySort(matches, "sortComparator_", laterFirst),
                      se.customSort, laterFirst)
       ELSE arraySort(matches, "sortComparator_", laterFirst)
  ELSE matches

\* the array functions_.performSort_ leaves in place of `matches`
sortedList(st, se, laterFirst, matches) ==
  LET byRelevance ==
        IF se.sort /\ isConstrained(st, se) /\ Len(matches) # 0
        THEN arraySort(matches, "sortComparator_", laterFirst)
        ELSE matches
  IN IF se.customSort # "null"
     THEN arraySort(byRelevance, se.customSort, laterFirst)
     ELSE byRelevance

\* the state functions_.performSort_ leaves besides the sorted array:
\* isConstrained runs (and updates the constraints) only when sort is set
sortState(st, se) == IF se.sort THEN updateConstraints_(st, se) ELSE st

\* functions_.performSort_ applied to one of the arrays of state_:
\* field is "matches", "partial" or "allItems"; sorting an aliased array
\* sorts both names
performSort_(st, se, laterFirst, field) ==
  LET u == sortState(st, se)
  IN CASE field = "partial" ->
            [u EXCEPT !.partial = sortedList(st, se, laterFirst, st.partial)]
       [] field = "matches" ->
            LET s == sortedList(st, se, laterFirst, st.matches)
            IN [u EXCEPT !.matches = s,
                         !.allItems = IF st.aliased THEN s ELSE st.allItems]
       [] OTHER ->
            LET s == sortedList(st, se, laterFirst, st.allItems)
            IN [u EXCEPT !.allItems = s,
                         !.matches = IF st.aliased THEN s ELSE st.matches]

\* ------------------------------------------------ match classifier cache
\* updateMatches_ taking the number of matches as the last index
updateMatches_LastIsTotal(st, se, laterFirst) ==
  IF st.complete THEN st
  ELSE CHOOSE done \in
         { [sorted EXCEPT !.totalMatches = Len(sorted.matches),
                          !.index = 0,
                          !.lastIndex = Len(sorted.matches),
                          !.complete = TRUE] :
             sorted \in
               { performSort_(searched, se, laterFirst, "matches") :
                   searched \in { IF st.searched THEN st
                                  ELSE performSearch_(st, se) } } } : TRUE

\* functions_.updateMatches_
updateMatches_(st, se, laterFirst) ==
  IF st.complete THEN st
  ELSE CHOOSE done \in
         { [sorted EXCEPT !.totalMatches = Len(sorted.matches),
                          !.index = 0,
                          !.lastIndex = Len(sorted.matches) - 1,
                          !.complete = TRUE] :
             sorted \in
               { performSort_(searched, se, laterFirst, "matches") :
                   searched \in { IF st.searched THEN st
                                  ELSE performSearch_(st, se) } } } : TRUE

\* ------------------------------------------------------ output formatter
\* functions_.getItem_
getItem_(st, match) == collectionGet(st.collection, match[1])

\* getItemInject_ leaving a record item untouched once it has the property
injectInto_KeepsExisting(item, se, match) ==
  CASE item.t = "arr" ->
         [item EXCEPT !.props = Append(item.props,
                                       [k |-> digits(Len(item.props)),
                                        v |-> StatsObj(match[2], match[3])])]
    [] item.t = "rec" ->
         IF \E i \in 1..Len(item.props) : item.props[i].k = se.inject.property
         THEN item
         ELSE [item EXCEPT !.props = Append(item.props,
                                            [k |-> se.inject.property,
                                             v |-> StatsObj(match[2], match[3])])]
    [] OTHER -> item

\* the item functions_.getItemInject_ leaves and returns: an array item gets
\* the stats pushed, a record item gets them under the inject property
\* (replacing an earlier value in place), a text item is untouched
injectInto(item, se, match) ==
  LET stats == StatsObj(match[2], match[3])
      name == se.inject.property
      at == {i \in 1..Len(item.props) : item.props[i].k = name}
  IN CASE item.t = "arr" ->
            [item EXCEPT !.props = Append(item.props,
                                          [k |-> digits(Len(item.props)), v |-> stats])]
       [] item.t = "rec" ->
            IF at = {} THEN [item EXCEPT !.props = Append(item.props, [k |-> name, v |-> stats])]
            ELSE [item EXCEPT !.props[CHOOSE i \in at : TRUE].v = stats]
       [] OTHER -> item

RECURSIVE injectAll(_, _, _, _)
\* the collection after getItemInject_ ran for matches[i..]
injectAll(coll, se, matches, i) ==
  IF i > Len(matches) THEN coll
  ELSE LET at == CHOOSE j \in 1..Len(coll) : coll[j].key = matches[i][1]
       IN injectAll([coll EXCEPT ![at].item = injectInto(coll[at].item, se, matches[i])],
                    se, matches, i + 1)

\* toOriginalFormat_ taking the injecting branch whatever inject.enabled is
formatState_AlwaysInjects(st, se, matches) ==
  [st EXCEPT !.collection = injectAll(st.collection, se, matches, 1)]

\* the collection functions_.toOriginalFormat_ leaves
formatState(st, se, matches) ==
  IF se.inject.enabled
  THEN [st EXCEPT !.collection = injectAll(st.collection, se, matches, 1)]
  ELSE st

\* toOriginalFormat_ taking the array branch whatever the collection type
toOriginalFormat_AsArray(st, se, matches) ==
  [shape |-> "array",
   entries |-> [i \in 1..Len(matches) |->
                  [key |-> i - 1,
                   item |-> collectionGet(formatState(st, se, matches).collection,
                                          matches[i][1])]]]

\* the value functions_.toOriginalFormat_ returns: for an array collection
\* the items in match order; for an object collection the key -> item
\* properties in insertion order (reduce_, reduceInject_)
toOriginalFormat_(st, se, matches) ==
  LET after == formatState(st, se, matches)
  IN IF se.collectionType = "array"
     THEN [shape |-> "array",
           entries |-> [i \in 1..Len(matches) |->
                          [key |-> i - 1, item |-> getItem_(after, matches[i])]]]
     ELSE [shape |-> "object",
           entries |-> [i \in 1..Len(matches) |->
                          [key |-> matches[i][1], item |-> getItem_(after, matches[i])]]]

\* ------------------------------------------------------ result accessors
\* each accessor as [st, value]: the state it leaves and the value it returns
getMatches(st, se, laterFirst) ==
  CHOOSE result \in
    { [st |-> formatState(u, se, u.matches),
       value |-> toOriginalFormat_(u, se, u.matches)] :
        u \in { updateMatches_(st, se, laterFirst) } } : TRUE

getPartialMatches(st, se, laterFirst) ==
  CHOOSE result \in
    { [st |-> formatState(u, se, u.partial),
       value |-> toOriginalFormat_(u, se, u.partial)] :
        u \in { performSort_(m, se, laterFirst, "partial") :
                  m \in { updateMatches_(st, se, laterFirst) } } } : TRUE

\* get allMatches keeping the concatenation as the list of full matches
getAllMatches_StoresConcat(st, se, laterFirst) ==
  CHOOSE result \in
    { [st |-> formatState([pair.u EXCEPT !.matches = pair.all], se, pair.all),
       value |-> toOriginalFormat_(pair.u, se, pair.all)] :
        pair \in { [all |-> sortedList(m, se, laterFirst, m.matches \o m.partial),
                    u |-> sortState(m, se)] :
                     m \in { updateMatches_(st, se, laterFirst) } } } : TRUE

getAllMatches(st, se, laterFirst) ==
  CHOOSE result \in
    { [st |-> formatState(pair.u, se, pair.all),
       value |-> toOriginalFormat_(pair.u, se, pair.all)] :
        pair \in { [all |-> sortedList(m, se, laterFirst, m.matches \o m.partial),
                    u |-> sortState(m, se)] :
                     m \in { updateMatches_(st, se, laterFirst) } } } : TRUE

getAllItems(st, se, laterFirst) ==
  CHOOSE result \in
    { [st |-> formatState(u, se, u.allItems),
       value |-> toOriginalFormat_(u, se, u.allItems)] :
        u \in { performSort_(m, se, laterFirst, "allItems") :
                  m \in { updateMatches_(st, se, laterFirst) } } } : TRUE

getLength(st, se, laterFirst) ==
  CHOOSE result \in
    { [st |-> u, value |-> u.totalMatches] :
        u \in { updateMatches_(st, se, laterFirst) } } : TRUE

\* --------------------------------------------------------------- iteration
\* [Symbol.iterator](), as [threw, st]: its first statement calls
\* this.updateMatches_, which neither the instance nor its prototype has
\* (updateMatches_ is a property of functions_), so a TypeError propagates
\* before an iterator is returned
iterator_(st, se) == [threw |-> TRUE, st |-> st]

\* iterators_.next_ and nextInject_ bound to the instance, as [threw, done,
\* value, st]: past the last index they report done; else the argument
\* matches[index++] is evaluated and getItem_ / getItemInject_ is called as
\* a method of functions_, whose state_ is undefined: a TypeError propagates
\* and no value is returned
next_(st, se) ==
  IF st.index > st.lastIndex
  THEN [threw |-> FALSE, done |-> TRUE, value |-> Undefined, st |-> st]
  ELSE [threw |-> TRUE, done |-> FALSE, value |-> Undefined,
        st |-> [st EXCEPT !.index = @ + 1]]

\* ------------------------------------------------------------------ state
\* state_ and settings_ are the two objects of an instance.  laterFirst is
\* the argument order the engine's Array.prototype.sort calls comparators in.
\* thrown is "none" while every call has returned, else the call ("search",
\* "for", "and" or "iterator") out of which a TypeError propagated: no call
\* follows it.  promises holds one record per then()/catch() call: how the
\* promise it created was settled, the reason of a rejection, and how often
\* its success and failure callbacks have been invoked; jobs is the queue of
\* promise reaction jobs not yet run.  this holds the addresses of the state_
\* and settings_ objects of the instance under call; peer is a second
\* instance (its state_, settings_ and their addresses) the caller holds.
VARIABLES state_, settings_, laterFirst, thrown, promises, jobs, this, peer

vars == <<state_, settings_, laterFirst, thrown, promises, jobs, this, peer>>

\* ----------------------------------------------------------------- inputs
\* Keys of an array collection are its indexes 0, 1, ...; key k of an object
\* collection stands for the k-th of its (non-index) property names in
\* code-unit order, so that < on keys is < on the names.
ArrayOf(items) ==
  [shape |-> "array",
   entries |-> [i \in 1..Len(items) |-> [key |-> i - 1, item |-> items[i]]]]
ObjectOf(entries) == [shape |-> "object", entries |-> entries]
Entry(key, item) == [key |-> key, item |-> item]

\* ['a', 'A a', '']
TextArray == ArrayOf(<< TextItem(<<"a">>), TextItem(<<"A"," ","a">>), TextItem(<<>>) >>)

\* { b: {t:'a', n:1}, a: {t:'a', n:5}, c: {t:'A a', n:5} }
RecordObject ==
  ObjectOf(<< Entry(2, RecItem(<< Prop(<<"t">>, Str(<<"a">>)), Prop(<<"n">>, Num(1)) >>)),
              Entry(1, RecItem(<< Prop(<<"t">>, Str(<<"a">>)), Prop(<<"n">>, Num(5)) >>)),
              Entry(3, RecItem(<< Prop(<<"t">>, Str(<<"A"," ","a">>)), Prop(<<"n">>, Num(5)) >>)) >>)

\* [['a'], ['A']]
NestedArray == ArrayOf(<< ArrItem(<< Str(<<"a">>) >>), ArrItem(<< Str(<<"A">>) >>) >>)

\* a primitive: search(5)
Primitive == [shape |-> "number", entries |-> <<>>]

\* search(x) for x undefined, true, 'a' and null: shape is typeof x, "null"
\* for null
InvalidInputs ==
  { [shape |-> "undefined", entries |-> <<>>], [shape |-> "boolean", entries |-> <<>>],
    [shape |-> "string", entries |-> <<>>], [shape |-> "null", entries |-> <<>>] }

TextConstraint(s) ==
  [form |-> "text", text |-> s, c0 |-> Undefined, c1 |-> Undefined, c2 |-> Undefined]
ArrayConstraint(c0, c1, c2) ==
  [form |-> "array", text |-> <<>>, c0 |-> c0, c1 |-> c1, c2 |-> c2]
\* { key, operator, value }; an omitted field is undefined
ObjectConstraint(key, operator, value) ==
  [form |-> "object", text |-> <<>>, c0 |-> key, c1 |-> operator, c2 |-> value]
OtherConstraint ==
  [form |-> "other", text |-> <<>>, c0 |-> Undefined, c1 |-> Undefined, c2 |-> Undefined]
\* null
NullConstraint ==
  [form |-> "null", text |-> <<>>, c0 |-> Undefined, c1 |-> Undefined, c2 |-> Undefined]

\* 'a', 'A', 'a  a' (two blanks), '' and ' '
SearchTexts ==
  { TextConstraint(<<"a">>), TextConstraint(<<"A">>), TextConstraint(<<"a"," "," ","a">>),
    TextConstraint(<<>>), TextConstraint(<<" ">>) }

\* ['n', '>=', 5]
FilterConstraints == { ArrayConstraint(Str(<<"n">>), Str(<<">","=">>), Num(5)) }

KeyString(k) == [form |-> "string", list |-> << k >>]
KeyInputs == { KeyString(<<"n">>) }

\* ---------------------------------------------------------------- actions
\* search(input): the state a new instance is returned in
\* search(items) handing out one state_ and one settings_ object to every
\* instance
search_SharedState(input, free) ==
  [state_ |-> collection_(InitialState, input),
   settings_ |-> collectionType_(InitialSettings, input),
   refs |-> [state_ |-> 1, settings_ |-> 2]]

\* search(items): the instance it returns, its state_ and settings_ objects
\* allocated at the addresses free and free + 1
search(input, free) ==
  [state_ |-> collection_(InitialState, input),
   settings_ |-> collectionType_(InitialSettings, input),
   refs |-> [state_ |-> free, settings_ |-> free + 1]]

\* no second instance
NoPeer ==
  [state_ |-> InitialState, settings_ |-> InitialSettings,
   refs |-> [state_ |-> 0, settings_ |-> 0]]

\* the caller holds the one instance sl, no promise has been created
Single(sl) ==
  /\ state_ = sl.state_
  /\ settings_ = sl.settings_
  /\ this = sl.refs
  /\ peer = NoPeer
  /\ promises = <<>>
  /\ jobs = <<>>

InitWith(input) ==
  /\ IF collectionThrows(input)
     THEN Single([NoPeer EXCEPT !.refs = [state_ |-> 1, settings_ |-> 2]])
     ELSE Single(search(input, 1))
  /\ laterFirst \in BOOLEAN
  /\ thrown = IF collectionThrows(input) THEN "search" ELSE "none"

\* the second instance after the instance under call was left with st and
\* se: an object both instances hold is one object
peerAfter(st, se) ==
  [peer EXCEPT !.state_ = IF peer.refs.state_ = this.state_ THEN st ELSE @,
               !.settings_ = IF peer.refs.settings_ = this.settings_ THEN se ELSE @]

WithinBounds(st) ==
  /\ Len(st.searchText) <= MaxTextLen
  /\ Len(st.filters) <= MaxFilters
  /\ Len(st.keys) <= MaxKeys

Builder(st, se) ==
  \E after \in { st } :
    /\ thrown = "none"
    /\ WithinBounds(after)
    /\ state_' = after
    /\ settings_' = se
    /\ peer' = peerAfter(after, se)
    /\ UNCHANGED <<laterFirst, thrown, promises, jobs, this>>

\* a builder call out of which a TypeError propagates, leaving st
Throw(st, call) ==
  /\ thrown = "none"
  /\ state_' = st
  /\ thrown' = call
  /\ peer' = peerAfter(st, settings_)
  /\ UNCHANGED <<settings_, laterFirst, promises, jobs, this>>

For(constraint) ==
  IF andThrows(constraint) THEN Throw(for_(state_, constraint), "for")
  ELSE Builder(for_(state_, constraint), settings_)

And(constraint) ==
  IF andThrows(constraint) THEN Throw(and_(state_, constraint), "and")
  ELSE Builder(and_(state_, constraint), settings_)

In(keys) == Builder(in_(state_, keys), settings_)

Or(keys) == Builder(or_(state_, keys), settings_)

sorted_(st, se) == IF ~se.sort THEN [st EXCEPT !.complete = FALSE] ELSE st

Sorted ==
  Builder(sorted_(state_, settings_), [settings_ EXCEPT !.sort = TRUE])

unsorted_(st, se) == IF se.sort THEN [st EXCEPT !.complete = FALSE] ELSE st

Unsorted ==
  Builder(unsorted_(state_, settings_), [settings_ EXCEPT !.sort = FALSE])

SortUsing(fn) ==
  Builder([state_ EXCEPT !.complete = FALSE],
          [settings_ EXCEPT !.customSort = fn])

\* compareCase clearing the searched flag only
compareCase_KeepsComplete(st, se) ==
  IF ~se.case THEN [st EXCEPT !.searched = FALSE] ELSE st

compareCase_(st, se) ==
  IF ~se.case THEN [st EXCEPT !.complete = FALSE, !.searched = FALSE] ELSE st

CompareCase ==
  Builder(compareCase_(state_, settings_), [settings_ EXCEPT !.case = TRUE])

ignoreCase_(st, se) ==
  IF se.case THEN [st EXCEPT !.complete = FALSE, !.searched = FALSE] ELSE st

IgnoreCase ==
  Builder(ignoreCase_(state_, settings_), [settings_ EXCEPT !.case = FALSE])

\* withStats(property): property is a value, undefined when omitted
withStats_(se, property) ==
  [se EXCEPT !.inject.enabled = TRUE,
             !.inject.property = IF property.ty = "undefined" THEN @ ELSE ToString(property)]

WithStats(property) == Builder(state_, withStats_(settings_, property))

WithoutStats ==
  Builder(state_, [settings_ EXCEPT !.inject.enabled = FALSE])

\* stats injection makes array items grow without limit: a read runs only
\* while every item stays within MaxItemLen properties
ItemsWithinBounds(st) ==
  \A i \in 1..Len(st.collection) : Len(st.collection[i].item.props) <= MaxItemLen

Read(result) ==
  \E after \in { result.st } :
    /\ thrown = "none"
    /\ ItemsWithinBounds(after)
    /\ state_' = after
    /\ peer' = peerAfter(after, settings_)
    /\ UNCHANGED <<settings_, laterFirst, thrown, promises, jobs, this>>

ReadMatches == Read(getMatches(state_, settings_, laterFirst))

ReadPartialMatches ==
  Read(getPartialMatches(state_, settings_, laterFirst))

ReadAllMatches == Read(getAllMatches(state_, settings_, laterFirst))

ReadAllItems == Read(getAllItems(state_, settings_, laterFirst))

ReadLength == Read(getLength(state_, settings_, laterFirst))

Reads ==
  \/ ReadMatches
  \/ ReadPartialMatches
  \/ ReadAllMatches
  \/ ReadAllItems
  \/ ReadLength

\* [Symbol.iterator](): a request for an iteration (for ... of, spread)
Iterate ==
  /\ iterator_(state_, settings_).threw
  /\ Throw(iterator_(state_, settings_).st, "iterator")

\* the caller turns to the other instance it holds: the next calls are
\* made on that one
Switch ==
  /\ thrown = "none"
  /\ peer.refs.state_ # 0
  /\ state_' = peer.state_
  /\ settings_' = peer.settings_
  /\ this' = peer.refs
  /\ peer' = [state_ |-> state_, settings_ |-> settings_, refs |-> this]
  /\ UNCHANGED <<laterFirst, thrown, promises, jobs>>

\* ------------------------------------------------------- deferred results
\* then(success, failure): the executor of new Promise runs at once; it
\* brings the matches up to date and rejects with Error(errorMessage) when
\* the collection was invalid, else resolves with an object of three getters
settle(st) == IF st.error THEN "rejected" ELSE "fulfilled"

\* the names of the getters of that object
ResultGetters == { "matches", "partialMatchess", "allMatchess" }

\* reading property name of that object, as [st, value]: each getter reads
\* the accessor of the instance when it is called; a name the object does
\* not have reads undefined
resultGet(st, se, order, name) ==
  CASE name = "matches" -> getMatches(st, se, order)
    [] name = "partialMatchess" -> getPartialMatches(st, se, order)
    [] name = "allMatchess" -> getAllMatches(st, se, order)
    [] OTHER -> [st |-> st, value |-> Undefined]

\* promise.then(success, failure) on the settled promise: the callback the
\* queued reaction job will invoke, "none" when that callback is undefined
reaction_AlwaysSuccess(settled, success, failure) ==
  IF success THEN "success" ELSE "none"

reaction(settled, success, failure) ==
  CASE settled = "fulfilled" /\ success -> "success"
    [] settled = "rejected" /\ failure -> "failure"
    [] OTHER -> "none"

\* then(success, failure); success and failure tell whether the callback
\* is given
Then(success, failure) ==
  \E after \in { updateMatches_(state_, settings_, laterFirst) } :
    /\ thrown = "none"
    /\ Len(promises) < MaxThens
    /\ state_' = after
    /\ promises' = Append(promises,
                          [settled |-> settle(after), reason |-> after.errorMessage,
                           onSuccess |-> success, onFailure |-> failure,
                           success |-> 0, failure |-> 0])
    /\ jobs' = Append(jobs, [promise |-> Len(promises) + 1,
                             handler |-> reaction(settle(after), success, failure)])
    /\ peer' = peerAfter(after, settings_)
    /\ UNCHANGED <<settings_, laterFirst, thrown, this>>

\* catch(failure)
Catch == Then(FALSE, TRUE)

\* the oldest reaction job runs: it invokes its callback once, the success
\* callback with the object of getters, the failure callback with the Error
RunJob ==
  /\ jobs # <<>>
  /\ jobs' = Tail(jobs)
  /\ promises' =
       CASE Head(jobs).handler = "success" ->
              [promises EXCEPT ![Head(jobs).promise].success = @ + 1]
         [] Head(jobs).handler = "failure" ->
              [promises EXCEPT ![Head(jobs).promise].failure = @ + 1]
         [] OTHER -> promises
  /\ UNCHANGED <<state_, settings_, laterFirst, thrown, this, peer>>

\* the names a success callback reads its argument by
CallbackReads == { "matches", "partialMatches", "allMatches" }

\* a caller that was handed the object of getters reads its property name
ReadResult(name) ==
  /\ \E i \in 1..Len(promises) : promises[i].success > 0
  /\ Read(resultGet(state_, settings_, laterFirst, name))

\* --------------------------------------------------------- specifications
Constraints == SearchTexts \cup FilterConstraints \cup {OtherConstraint}

\* Spec: constraints, key restriction and every accessor
Init == \E input \in { TextArray, RecordObject, Primitive } : InitWith(input)

Next ==
  \/ \E c \in Constraints : For(c)
  \/ \E c \in Constraints : And(c)
  \/ \E k \in KeyInputs : In(k)
  \/ \E k \in KeyInputs : Or(k)
  \/ Reads

Spec == Init /\ [][Next]_vars

\* SpecCase: search text, filters, the case-sensitivity toggle and every
\* accessor
CaseTexts == { TextConstraint(<<"a">>), TextConstraint(<<"A">>), TextConstraint(<<>>) }

InitCase == \E input \in { TextArray, RecordObject } : InitWith(input)

NextCase ==
  \/ \E c \in CaseTexts \cup FilterConstraints : For(c)
  \/ \E c \in CaseTexts \cup FilterConstraints : And(c)
  \/ CompareCase
  \/ IgnoreCase
  \/ Reads

SpecCase == InitCase /\ [][NextCase]_vars

\* SpecSort: search text, filters, the sort toggle and every accessor
SortTexts == { TextConstraint(<<"a">>), TextConstraint(<<"A">>), TextConstraint(<<>>) }

InitSort == \E input \in { TextArray, RecordObject } : InitWith(input)

NextSort ==
  \/ \E c \in SortTexts \cup FilterConstraints : For(c)
  \/ \E c \in SortTexts \cup FilterConstraints : And(c)
  \/ Sorted
  \/ Unsorted
  \/ Reads

SpecSort == InitSort /\ [][NextSort]_vars

\* SpecStats: search text, the sort toggle, a custom comparator, stats
\* injection and every accessor
InitStats == \E input \in { NestedArray, RecordObject, TextArray } : InitWith(input)

NextStats ==
  \/ \E c \in { TextConstraint(<<"a">>), TextConstraint(<<>>) } : For(c)
  \/ Sorted
  \/ Unsorted
  \/ \E fn \in {"null", "byKeyDesc", "byItemN"} : SortUsing(fn)
  \/ \E property \in { Undefined, Str(<<"s">>) } : WithStats(property)
  \/ WithoutStats
  \/ Reads

SpecStats == InitStats /\ [][NextStats]_vars

\* SpecFixed: an instance configured once (sort, case) before
\* its first read, then constraint and key changes interleaved with reads
InitFixed ==
  \E input \in { TextArray, RecordObject },
     sort \in BOOLEAN, case \in BOOLEAN :
    /\ Single([search(input, 1) EXCEPT !.settings_.sort = sort,
                                       !.settings_.case = case])
    /\ laterFirst \in BOOLEAN
    /\ thrown = "none"

FixedConstraints ==
  { TextConstraint(<<"a">>), TextConstraint(<<"a"," "," ","a">>), TextConstraint(<<>>),
    TextConstraint(<<" ">>), OtherConstraint } \cup FilterConstraints

NextFixed ==
  \/ \E c \in FixedConstraints : For(c)
  \/ \E c \in FixedConstraints : And(c)
  \/ \E k \in KeyInputs : In(k)
  \/ \E k \in KeyInputs : Or(k)
  \/ Reads

SpecFixed == InitFixed /\ [][NextFixed]_vars

\* SpecTerms: an instance whose case setting is chosen before its first
\* read, over items in which a term can occur more than once and overlap
\* itself; search texts, key restriction and every accessor
\* ['aaa', 'Aa', '']
OverlapArray == ArrayOf(<< TextItem(<<"a","a","a">>), TextItem(<<"A","a">>), TextItem(<<>>) >>)

\* 'aa', 'Aa' and 'a'
TermTexts == { TextConstraint(<<"a","a">>), TextConstraint(<<"A","a">>), TextConstraint(<<"a">>) }

InitTerms ==
  \E input \in { OverlapArray, RecordObject }, case \in BOOLEAN :
    /\ Single([search(input, 1) EXCEPT !.settings_.case = case])
    /\ laterFirst \in BOOLEAN
    /\ thrown = "none"

NextTerms ==
  \/ \E c \in TermTexts : For(c)
  \/ \E c \in TermTexts : And(c)
  \/ \E k \in KeyInputs : In(k)
  \/ \E k \in KeyInputs : Or(k)
  \/ Reads

SpecTerms == InitTerms /\ [][NextTerms]_vars

\* SpecFilters: filters in every form and a search text over record items,
\* and every accessor
\* [ {t:'a', n:1}, {t:'A a', n:5} ]
RecordArray ==
  ArrayOf(<< RecItem(<< Prop(<<"t">>, Str(<<"a">>)), Prop(<<"n">>, Num(1)) >>),
             RecItem(<< Prop(<<"t">>, Str(<<"A"," ","a">>)), Prop(<<"n">>, Num(5)) >>) >>)

\* ['n', '>=', 5], ['t', 'a'], { key: 't', operator: '===', value: 'A a' } and
\* { key: 'n', value: 1 }
FilterForms ==
  { ArrayConstraint(Str(<<"n">>), Str(<<">","=">>), Num(5)),
    ArrayConstraint(Str(<<"t">>), Str(<<"a">>), Undefined),
    ObjectConstraint(Str(<<"t">>), Str(<<"=","=","=">>), Str(<<"A"," ","a">>)),
    ObjectConstraint(Str(<<"n">>), Undefined, Num(1)) }

InitFilters == \E input \in { RecordObject, RecordArray } : InitWith(input)

NextFilters ==
  \/ \E c \in FilterForms \cup { TextConstraint(<<"a">>) } : For(c)
  \/ \E c \in FilterForms \cup { TextConstraint(<<"a">>) } : And(c)
  \/ Reads

SpecFilters == InitFilters /\ [][NextFilters]_vars

\* SpecInvalid: collections and constraints of every type, valid or not,
\* key restriction and every accessor
InvalidConstraints == { OtherConstraint, NullConstraint }

InitInvalid ==
  \E input \in { TextArray, RecordObject, Primitive } \cup InvalidInputs : InitWith(input)

NextInvalid ==
  \/ \E c \in InvalidConstraints \cup FilterConstraints \cup { TextConstraint(<<"a">>) } : For(c)
  \/ \E c \in InvalidConstraints \cup FilterConstraints \cup { TextConstraint(<<"a">>) } : And(c)
  \/ \E k \in KeyInputs : In(k)
  \/ \E k \in KeyInputs : Or(k)
  \/ Reads

SpecInvalid == InitInvalid /\ [][NextInvalid]_vars

\* SpecThen: then()/catch() and their reaction jobs interleaved with search
\* texts, the sort and stats toggles and reads, over a valid array, a valid
\* object and an invalid collection
ThenTexts == { TextConstraint(<<"a">>), TextConstraint(<<>>) }

InitThen == \E input \in { TextArray, RecordObject, Primitive } : InitWith(input)

NextThen ==
  \/ \E c \in ThenTexts : For(c)
  \/ Sorted
  \/ WithStats(Undefined)
  \/ WithoutStats
  \/ Then(TRUE, TRUE)
  \/ Catch
  \/ RunJob
  \/ \E name \in CallbackReads : ReadResult(name)
  \/ Reads

SpecThen == InitThen /\ [][NextThen]_vars

\* SpecThenFair: SpecThen with the job queue drained: a queued reaction job
\* is run once the calling code has returned
SpecThenFair == InitThen /\ [][NextThen]_vars /\ WF_vars(RunJob)

\* SpecIterate: iteration requests interleaved with search texts, a filter,
\* sorting, stats injection and reads of .matches and .length, over a valid
\* array, a valid object and an invalid collection
InitIterate == \E input \in { TextArray, RecordObject, Primitive } : InitWith(input)

NextIterate ==
  \/ \E c \in ThenTexts \cup FilterConstraints : For(c)
  \/ \E c \in ThenTexts : And(c)
  \/ Sorted
  \/ WithStats(Undefined)
  \/ ReadMatches
  \/ ReadLength
  \/ Iterate

SpecIterate == InitIterate /\ [][NextIterate]_vars

\* SpecSubject: search texts whose terms occur in separators, numbers and
\* injected stats, key restriction, stats injection and every accessor, over
\* text, sequence and record items
\* [ {t:'', n:0}, {t:'0', n:1} ]
ZeroRecords ==
  ArrayOf(<< RecItem(<< Prop(<<"t">>, Str(<<>>)), Prop(<<"n">>, Num(0)) >>),
             RecItem(<< Prop(<<"t">>, Str(<<"0">>)), Prop(<<"n">>, Num(1)) >>) >>)

\* 'a', '|', 'o', '0' and ''
SubjectTexts ==
  { TextConstraint(<<"a">>), TextConstraint(<<"|">>), TextConstraint(<<"o">>),
    TextConstraint(<<"0">>), TextConstraint(<<>>) }

\* 'n' and 'z', a property no item has
SubjectKeys == { KeyString(<<"n">>), KeyString(<<"z">>) }

InitSubject ==
  \E input \in { TextArray, NestedArray, RecordObject, ZeroRecords } : InitWith(input)

NextSubject ==
  \/ \E c \in SubjectTexts : For(c)
  \/ \E k \in SubjectKeys : In(k)
  \/ \E k \in SubjectKeys : Or(k)
  \/ WithStats(Undefined)
  \/ WithoutStats
  \/ Reads

SpecSubject == InitSubject /\ [][NextSubject]_vars

\* ------------------------------------- src/src/search-light.js (singleton)
\* The SearchLight object literal of src/src/search-light.js: one state_ and
\* one settings_ object, created when the module is loaded; its exported
\* search is search_ bound to that object.  state_ has no collection until
\* the first search call.
SearchLight_state_ ==
  [matches |-> <<>>, partial |-> <<>>, allItems |-> <<>>,
   searchText |-> <<>>, searchTerms |-> <<>>, properties |-> <<>>, filters |-> <<>>,
   error |-> FALSE, errorMessage |-> <<>>, index |-> 0, lastIndex |-> 0,
   totalMatches |-> 0, ready |-> FALSE, complete |-> FALSE, searched |-> FALSE,
   collection |-> <<>>]

SearchLight_settings_ ==
  [collectionType |-> "array",
   comparison |-> [case |-> FALSE],
   relevance |-> [threshold |-> 1, sort |-> FALSE],
   inject |-> [property |-> <<"s","e","a","r","c","h","R","e","s","u","l","t","s">>,
               relevance |-> FALSE, missingTerms |-> FALSE]]

\* search_(items) on the object whose state_ and settings_ are st and se:
\* what it leaves in them and the object it returns (this, whose state_ and
\* settings_ are the objects at the addresses 1 and 2).  An array leaves
\* collectionType as it is, an object sets it, anything else sets the error
\* flag and the message (the comma expression assigns its first operand) and
\* leaves an empty Map
SearchLight_search_(st, se, items) ==
  [state_ |-> [st EXCEPT
                 !.error = IF items.shape \in {"array", "object"} THEN @ ELSE TRUE,
                 !.errorMessage = IF items.shape \in {"array", "object"} THEN @
                                  ELSE <<"Invalid items type: ">>,
                 !.collection = IF items.shape \in {"array", "object"}
                                THEN items.entries ELSE <<>>,
                 !.complete = FALSE,
                 !.searched = FALSE],
   settings_ |-> IF items.shape = "object"
                 THEN [se EXCEPT !.collectionType = "object"] ELSE se,
   refs |-> [state_ |-> 1, settings_ |-> 2]]

\* for(constraint): a text is appended to the search text; for an array or
\* an object the key, operator and value are read into locals and nothing is
\* stored; anything else is warned about
SearchLight_for(st, constraint) ==
  LET cleared == [st EXCEPT !.ready = FALSE, !.complete = FALSE, !.searched = FALSE]
  IN IF constraint.form = "text"
     THEN [cleared EXCEPT !.searchText = trim(st.searchText \o <<" ">> \o constraint.text)]
     ELSE cleared

\* in(properties)
SearchLight_in(st, properties) ==
  [st EXCEPT !.ready = FALSE, !.complete = FALSE, !.searched = FALSE,
             !.properties = st.properties \o properties.list]

\* sortedBy(method): method is a text
SearchLight_sortedBy(se, method) ==
  [se EXCEPT !.relevance.sort = (method = <<"r","e","l","e","v","a","n","c","e">>)]

\* functions_.updateConstraints_
SearchLight_updateConstraints_(st, se) ==
  IF st.ready THEN st
  ELSE [st EXCEPT !.searchTerms =
                     IF st.searchText = <<>> THEN <<>>
                     ELSE split(IF se.comparison.case THEN st.searchText
                                ELSE toLowerCase(st.searchText), <<" ">>),
                  !.ready = TRUE]

\* functions_.isConstrained: its value
SearchLight_isConstrained(st, se) ==
  \E u \in { SearchLight_updateConstraints_(st, se) } :
    Len(u.searchTerms) # 0 \/ Len(u.filters) # 0

\* functions_.propertyIterator_: item[property] || null
propertyIterator_(item, property) ==
  LET v == getProperty(item, Str(property))
  IN IF \/ v.ty \in {"undefined", "null"}
        \/ (v.ty = "str" /\ v.s = <<>>)
        \/ (v.ty = "num" /\ v.n = 0)
     THEN [ty |-> "null", s |-> <<>>, n |-> 0]
     ELSE v

\* functions_.searchIterator_ on match = <<key, relevance, missing>>
searchIterator_(match, subject, term) ==
  LET relevance == Len(split(subject, term)) - 1
  IN IF relevance # 0
     THEN <<match[1], match[2] + relevance, match[3]>>
     ELSE <<match[1], match[2], match[3] \o <<" ">> \o term>>

\* functions_.filterIterator_: filter is <<key, operator, value>>
filterIterator_(item, match, filter) ==
  IF item.t # "text" /\ filterTest(filter[2], getProperty(item, filter[1]), filter[3])
  THEN <<match[1], match[2] + 1, match[3]>>
  ELSE match

RECURSIVE checkFilters(_, _, _, _)
\* state_.filters.forEach(filterIterator_)
checkFilters(item, match, filters, i) ==
  IF i > Len(filters) THEN match
  ELSE checkFilters(item, filterIterator_(item, match, filters[i]), filters, i + 1)

RECURSIVE checkTerms(_, _, _, _)
\* state_.searchTerms.forEach(searchIterator_)
checkTerms(match, subject, terms, i) ==
  IF i > Len(terms) THEN match
  ELSE checkTerms(searchIterator_(match, subject, terms[i]), subject, terms, i + 1)

\* functions_.checkRelevance_: score the item and push its record
checkRelevance_(st, se, item, key) ==
  LET raw == IF item.t = "text" THEN item.s
             ELSE IF Len(st.properties) # 0
                  THEN Join([i \in 1..Len(st.properties) |->
                               JoinText(propertyIterator_(item, st.properties[i]))], <<"|">>)
                  ELSE Join([i \in 1..Len(item.props) |->
                               JoinText(item.props[i].v)], <<"|">>)
      subject == IF se.comparison.case THEN raw ELSE toLowerCase(raw)
      match == checkTerms(checkFilters(item, <<key, 0, <<>> >>, st.filters, 1),
                          subject, st.searchTerms, 1)
      pushed == [st EXCEPT !.allItems = Append(st.allItems, match)]
  IN IF match[2] = 0 THEN pushed
     ELSE IF match[2] < se.relevance.threshold
          THEN [pushed EXCEPT !.partial = Append(pushed.partial, match)]
          ELSE [pushed EXCEPT !.matches = Append(pushed.matches, match)]

RECURSIVE checkEach(_, _, _)
\* state_.collection.forEach(checkRelevance_)
checkEach(st, se, i) ==
  IF i > Len(st.collection) THEN st
  ELSE checkEach(checkRelevance_(st, se, st.collection[i].item,
                                 st.collection[i].key), se, i + 1)

\* functions_.emptyMatchIterator_
emptyMatchIterator_(key) == <<key, 0, <<>> >>

\* functions_.performSearch_; without constraints matches and allItems are
\* one array, which nothing sorts or changes while no constraint is set
SearchLight_performSearch_(st, se) ==
  CHOOSE done \in
    { IF Len(u.searchTerms) # 0 \/ Len(u.filters) # 0
      THEN [checkEach([u EXCEPT !.allItems = <<>>, !.matches = <<>>,
                                !.partial = <<>>], se, 1)
              EXCEPT !.searched = TRUE]
      ELSE [u EXCEPT !.allItems = [i \in 1..Len(u.collection) |->
                                     emptyMatchIterator_(u.collection[i].key)],
                     !.matches = [i \in 1..Len(u.collection) |->
                                    emptyMatchIterator_(u.collection[i].key)],
                     !.partial = <<>>,
                     !.searched = TRUE] :
        u \in { SearchLight_updateConstraints_(st, se) } } : TRUE

\* the array functions_.performSort_ leaves in place of items; its
\* comparator (lines 391-399) is the function sortComparator_ of the other
\* build, statement for statement
SearchLight_performSort_(st, se, order, items) ==
  IF se.relevance.sort /\ SearchLight_isConstrained(st, se) /\ Len(items) # 0
  THEN arraySort(items, "sortComparator_", order)
  ELSE items

\* functions_.updateMatches_; the searched flag is only set together with
\* ready, so the isConstrained call of performSort_ changes nothing
SearchLight_updateMatches_(st, se, order) ==
  IF st.complete THEN st
  ELSE CHOOSE done \in
         { [searched EXCEPT !.matches = sorted,
                            !.totalMatches = Len(sorted),
                            !.index = 0,
                            !.lastIndex = Len(sorted) - 1,
                            !.complete = TRUE] :
             <<searched, sorted>> \in
               { <<u, SearchLight_performSort_(u, se, order, u.matches)>> :
                   u \in { IF st.searched THEN st
                           ELSE SearchLight_performSearch_(st, se) } } } : TRUE

\* functions_.toOriginalFormat_ with both inject settings clear, as they
\* always are: no function of this build sets them
SearchLight_toOriginalFormat_(st, se, matches) ==
  IF se.collectionType = "array"
  THEN [shape |-> "array",
        entries |-> [i \in 1..Len(matches) |->
                       [key |-> i - 1, item |-> collectionGet(st.collection, matches[i][1])]]]
  ELSE [shape |-> "object",
        entries |-> [i \in 1..Len(matches) |->
                       [key |-> matches[i][1],
                        item |-> collectionGet(st.collection, matches[i][1])]]]

\* get matches and get allItems as [st, value], get length likewise
SearchLight_matches(st, se, order) ==
  CHOOSE result \in
    { [st |-> u, value |-> SearchLight_toOriginalFormat_(u, se, u.matches)] :
        u \in { SearchLight_updateMatches_(st, se, order) } } : TRUE

SearchLight_allItems(st, se, order) ==
  CHOOSE result \in
    { [st |-> [u EXCEPT !.allItems = sorted],
       value |-> SearchLight_toOriginalFormat_(u, se, sorted)] :
        <<u, sorted>> \in
          { <<m, SearchLight_performSort_(m, se, order, m.allItems)>> :
              m \in { SearchLight_updateMatches_(st, se, order) } } } : TRUE

SearchLight_length(st, se, order) ==
  CHOOSE result \in
    { [st |-> u, value |-> u.totalMatches] :
        u \in { SearchLight_updateMatches_(st, se, order) } } : TRUE

\* a call on the singleton that leaves st and se in it
SingletonCall(st, se) ==
  \E after \in { st } :
    /\ Len(after.searchText) <= MaxTextLen
    /\ Len(after.properties) <= MaxKeys
    /\ state_' = after
    /\ settings_' = se
    /\ UNCHANGED <<laterFirst, thrown, promises, jobs, this, peer>>

SingletonSearch(items) ==
  \E sl \in { SearchLight_search_(state_, settings_, items) } :
    SingletonCall(sl.state_, sl.settings_)

SingletonFor(constraint) ==
  SingletonCall(SearchLight_for(state_, constraint), settings_)

SingletonIn(properties) ==
  SingletonCall(SearchLight_in(state_, properties), settings_)

SingletonSortedBy(method) ==
  SingletonCall([state_ EXCEPT !.complete = FALSE],
                SearchLight_sortedBy(settings_, method))

SingletonReadMatches ==
  SingletonCall(SearchLight_matches(state_, settings_, laterFirst).st, settings_)

SingletonReadAllItems ==
  SingletonCall(SearchLight_allItems(state_, settings_, laterFirst).st, settings_)

SingletonReadLength ==
  SingletonCall(SearchLight_length(state_, settings_, laterFirst).st, settings_)

\* SpecSingleton: the build of src/src: search calls on a valid array, a
\* valid object and a primitive, each followed by search texts, a filter,
\* key restriction, the sort setting and reads
SingletonInputs == { TextArray, RecordObject, Primitive }

SingletonConstraints ==
  { TextConstraint(<<"a">>), TextConstraint(<<"A">>) } \cup FilterConstraints

SortMethods == { <<"r","e","l","e","v","a","n","c","e">>, <<"n","o","n","e">> }

\* the module is loaded and search was called once
InitSingleton ==
  /\ \E items \in SingletonInputs :
       Single(SearchLight_search_(SearchLight_state_, SearchLight_settings_, items))
  /\ laterFirst \in BOOLEAN
  /\ thrown = "none"

NextSingleton ==
  \/ \E items \in SingletonInputs : SingletonSearch(items)
  \/ \E c \in SingletonConstraints : SingletonFor(c)
  \/ \E k \in KeyInputs : SingletonIn(k)
  \/ \E method \in SortMethods : SingletonSortedBy(method)
  \/ SingletonReadMatches
  \/ SingletonReadAllItems
  \/ SingletonReadLength

SpecSingleton == InitSingleton /\ [][NextSingleton]_vars

\* SpecTwo: two instances made by two search() calls, with search texts,
\* the sort toggle and reads of .matches and .length made on either
InitTwo ==
  \E first \in { TextArray, RecordObject }, second \in { TextArray, RecordObject } :
    /\ state_ = search(first, 1).state_
    /\ settings_ = search(first, 1).settings_
    /\ this = search(first, 1).refs
    /\ peer = search(second, 3)
    /\ promises = <<>>
    /\ jobs = <<>>
    /\ laterFirst \in BOOLEAN
    /\ thrown = "none"

NextTwo ==
  \/ \E c \in ThenTexts : For(c)
  \/ Sorted
  \/ ReadMatches
  \/ ReadLength
  \/ Switch

SpecTwo == InitTwo /\ [][NextTwo]_vars

\* ----------------------------------------------------------------- claims
Keys(matches) == {matches[i][1] : i \in 1..Len(matches)}
Records(matches) == {matches[i] : i \in 1..Len(matches)}
CollectionKeys == {state_.collection[i].key : i \in 1..Len(state_.collection)}
OnceEach(matches) == Cardinality(Keys(matches)) = Len(matches)

\* the accumulated constraints are not empty
Constrained == state_.filters # <<>> \/ state_.searchText # <<>>

\* C1: after a classification pass (the complete flag is set by the read
\* that ran it), every Collection key has exactly one record in allItems,
\* every record is in exactly one of matches, partial or neither, no key is
\* in both matches and partial, and .allItems returns exactly
\* Collection-size entries.
C1_Partition ==
  /\ state_.complete =>
       /\ Len(state_.allItems) = Len(state_.collection)
       /\ Keys(state_.allItems) = CollectionKeys
       /\ OnceEach(state_.allItems)
       /\ OnceEach(state_.matches)
       /\ OnceEach(state_.partial)
       /\ Records(state_.matches) \cup Records(state_.partial)
            \subseteq Records(state_.allItems)
       /\ Keys(state_.matches) \cap Keys(state_.partial) = {}
  /\ Len(getAllItems(state_, settings_, laterFirst).value.entries)
       = Len(state_.collection)

\* a pass has run and left full matches, partial matches and excluded items
C1_Witness ==
  /\ state_.complete
  /\ state_.matches # <<>>
  /\ state_.partial # <<>>
  /\ Len(state_.matches) + Len(state_.partial) < Len(state_.allItems)

\* C2: after a constrained classification pass every item is a full match
\* iff its relevance is >= the threshold, a partial match iff 0 < relevance
\* < threshold, and excluded (in neither list) iff its relevance is exactly 0.
C2_Buckets ==
  (state_.complete /\ Constrained) =>
    \A m \in Records(state_.allItems) :
      /\ (m \in Records(state_.matches)) <=> (m[2] >= state_.threshold)
      /\ (m \in Records(state_.partial)) <=> (0 < m[2] /\ m[2] < state_.threshold)
      /\ (m \notin Records(state_.matches) \cup Records(state_.partial)) <=> (m[2] = 0)

\* C3: the threshold of a classification pass is the number of accumulated
\* filters, plus 1 when the current search-term list is not empty, plus the
\* base threshold; the term list is empty exactly when the search text is.
C3_Threshold ==
  state_.complete =>
    /\ state_.threshold = settings_.baseThreshold + Len(state_.filters)
                            + (IF state_.searchTerms # <<>> THEN 1 ELSE 0)
    /\ (state_.searchTerms # <<>>) <=> (state_.searchText # <<>>)

\* a pass has run with a filter and search terms accumulated
C3_Witness ==
  /\ state_.complete
  /\ state_.filters # <<>>
  /\ state_.searchTerms # <<>>
  /\ state_.threshold = 2

\* C10: the relevance of every match record is a non-negative integer.
C10_NonNegative ==
  state_.complete => \A m \in Records(state_.allItems) : m[2] >= 0

\* a new instance over the same collection on which the current search
\* text, filters and keys were accumulated; no read has run on it
FreshState ==
  [InitialState EXCEPT !.collection = state_.collection,
                       !.error = state_.error,
                       !.errorMessage = state_.errorMessage,
                       !.searchText = state_.searchText,
                       !.filters = state_.filters,
                       !.keys = state_.keys]

\* C4: with case, sort and stats settings fixed (stats off), what a read of
\* .matches, .partialMatches and .allMatches returns in any state reached
\* through for/and/in/or calls and reads is what the same read returns on a
\* from-scratch instance with the current search text, filters and keys.
C4_NoStaleResult ==
  /\ getMatches(state_, settings_, laterFirst).value
       = getMatches(FreshState, settings_, laterFirst).value
  /\ getPartialMatches(state_, settings_, laterFirst).value
       = getPartialMatches(FreshState, settings_, laterFirst).value
  /\ getAllMatches(state_, settings_, laterFirst).value
       = getAllMatches(FreshState, settings_, laterFirst).value

\* a constraint change has invalidated a cache that still holds the full and
\* partial matches of the earlier constraints, which the next read drops
C4_Witness ==
  /\ ~state_.searched
  /\ state_.matches # <<>>
  /\ state_.partial # <<>>
  /\ state_.keys # <<>>
  /\ getMatches(state_, settings_, laterFirst).value.entries = <<>>

\* C5: in any state, after compareCase() (or ignoreCase()) the next read
\* returns what a fresh instance with the same collection, search text,
\* filters and keys and the new case setting returns.
C5_CaseInvalidates ==
  LET sensitive == [settings_ EXCEPT !.case = TRUE]
      folded == [settings_ EXCEPT !.case = FALSE]
  IN /\ getMatches(compareCase_(state_, settings_), sensitive, laterFirst).value
          = getMatches(FreshState, sensitive, laterFirst).value
     /\ getAllMatches(compareCase_(state_, settings_), sensitive, laterFirst).value
          = getAllMatches(FreshState, sensitive, laterFirst).value
     /\ getMatches(ignoreCase_(state_, settings_), folded, laterFirst).value
          = getMatches(FreshState, folded, laterFirst).value
     /\ getAllMatches(ignoreCase_(state_, settings_), folded, laterFirst).value
          = getAllMatches(FreshState, folded, laterFirst).value

\* C6: a read of .matches followed by a second read of .matches, with no
\* builder call in between, returns the same value twice.
C6_RepeatedRead ==
  getMatches(getMatches(state_, settings_, laterFirst).st, settings_, laterFirst).value
    = getMatches(state_, settings_, laterFirst).value

\* position of a key in the Collection's iteration order
CollectionIndex(key) ==
  CHOOSE i \in 1..Len(state_.collection) : state_.collection[i].key = key

\* C7: whenever sorting is disabled and no custom comparator is set, a read
\* of .matches lists the full matches in original Collection order.
C7_UnsortedOrder ==
  LET m == updateMatches_(state_, settings_, laterFirst).matches
  IN (~settings_.sort /\ settings_.customSort = "null") =>
       \A i, j \in 1..Len(m) :
         i < j => CollectionIndex(m[i][1]) < CollectionIndex(m[j][1])

\* C8: with sorting enabled, constraints present and no custom comparator,
\* .matches is ordered by relevance descending and matches of equal
\* relevance are ordered lower key first.
C8_SortedOrder ==
  LET m == updateMatches_(state_, settings_, laterFirst).matches
  IN (settings_.sort /\ settings_.customSort = "null" /\ Constrained) =>
       \A i, j \in 1..Len(m) :
         i < j => \/ m[i][2] > m[j][2]
                  \/ (m[i][2] = m[j][2] /\ m[i][1] < m[j][1])

\* C9: whenever the accumulated constraints are empty, .matches, .allMatches
\* and .allItems return the same value, which holds every item of the
\* Collection, every match record has relevance 0, .partialMatches is empty
\* and .length is the Collection size.
C9_Unconstrained ==
  LET s == updateMatches_(state_, settings_, laterFirst)
      all == getAllItems(state_, settings_, laterFirst).value
      after == getAllItems(state_, settings_, laterFirst).st.collection
  IN ~Constrained =>
       /\ getMatches(state_, settings_, laterFirst).value = all
       /\ getAllMatches(state_, settings_, laterFirst).value = all
       /\ {all.entries[i].item : i \in 1..Len(all.entries)}
            = {after[i].item : i \in 1..Len(after)}
       /\ Len(all.entries) = Len(state_.collection)
       /\ Keys(s.matches) = CollectionKeys
       /\ \A m \in Records(s.allItems) \cup Records(s.matches) : m[2] = 0
       /\ getPartialMatches(state_, settings_, laterFirst).value.entries = <<>>
       /\ getLength(state_, settings_, laterFirst).value = Len(state_.collection)

\* the unconstrained pass has run over a non-empty Collection on an
\* instance whose search terms were computed before (ready), with the key
\* restriction left by earlier builder calls still in place
C9_Witness ==
  /\ ~Constrained
  /\ state_.complete
  /\ state_.aliased
  /\ Len(state_.matches) = Len(state_.collection)
  /\ state_.collection # <<>>
  /\ state_.keys # <<>>

\* relevance of the record a pass left for a key
RelevanceOf(st, key) ==
  st.allItems[CHOOSE i \in 1..Len(st.allItems) : st.allItems[i][1] = key][2]

\* C11: in any state, for any text added with and(text) and nothing else
\* changed, every item's relevance in the next classification pass is >= its
\* relevance in the previous pass.
C11_Monotone ==
  state_.complete =>
    \A c \in SearchTexts :
      \A next \in { updateMatches_(and_(state_, c), settings_, laterFirst) } :
        \A k \in CollectionKeys :
          RelevanceOf(next, k) >= RelevanceOf(state_, k)

RECURSIVE Occurrences(_, _)
\* number of non-overlapping occurrences of a non-empty text t in s, found
\* left to right
Occurrences(s, t) ==
  IF Len(s) < Len(t) THEN 0
  ELSE IF SubSeq(s, 1, Len(t)) = t
       THEN 1 + Occurrences(SubSeq(s, Len(t) + 1, Len(s)), t)
       ELSE Occurrences(Tail(s), t)

\* a text as the current case setting compares it
Folded(s) == IF settings_.case THEN s ELSE toLowerCase(s)

\* the subject of the i-th item of the Collection, before case folding
VerbatimSubject(i) ==
  subjectOf(state_.collection[i].item, state_, [settings_ EXCEPT !.case = TRUE])

\* the record the last pass left for the i-th item of the Collection
RecordOf(i) ==
  state_.allItems[CHOOSE j \in 1..Len(state_.allItems) :
                    state_.allItems[j][1] = state_.collection[i].key]

\* C12: after a pass with a single non-empty search term t and no filters,
\* on an instance whose case setting was chosen before the first read, each
\* item's relevance is the number n of non-overlapping occurrences of t in
\* its subject found left to right (term and subject lower-cased unless
\* case-sensitive), and its missing terms are empty whenever n > 0.
C12_Occurrences ==
  ( /\ state_.complete
    /\ state_.filters = <<>>
    /\ state_.searchText # <<>>
    /\ \A i \in 1..Len(state_.searchText) : state_.searchText[i] # " " ) =>
    \A i \in 1..Len(state_.collection) :
      \A n \in { Occurrences(Folded(VerbatimSubject(i)), Folded(state_.searchText)) } :
        /\ RecordOf(i)[2] = n
        /\ n > 0 => RecordOf(i)[3] = <<>>

\* a case-sensitive pass for the term 'aa' has scored 'aaa', in which the
\* term overlaps itself, with relevance 1, and 'Aa' with relevance 0
C12_Witness ==
  /\ state_.complete
  /\ settings_.case
  /\ state_.filters = <<>>
  /\ state_.searchText = <<"a","a">>
  /\ \E i \in 1..Len(state_.collection) :
       /\ state_.collection[i].item = TextItem(<<"a","a","a">>)
       /\ RecordOf(i)[2] = 1
  /\ \E i \in 1..Len(state_.collection) :
       /\ state_.collection[i].item = TextItem(<<"A","a">>)
       /\ RecordOf(i)[2] = 0

\* the search terms of the last pass that do not occur in the subject of the
\* i-th item of the Collection, in search-term order
MissingTerms(i) ==
  LET subject == subjectOf(state_.collection[i].item, state_, settings_)
      Absent(t) == Occurrences(subject, t) = 0
  IN SelectSeq(state_.searchTerms, Absent)

\* C13: after a pass (every search term non-empty), the missing-terms text
\* of every item is exactly the terms with zero occurrences in its subject,
\* in search-term order, joined by single spaces with no leading or trailing
\* separator.
C13_MissingTerms ==
  ( /\ state_.complete
    /\ \A j \in 1..Len(state_.searchTerms) : state_.searchTerms[j] # <<>> ) =>
    \A i \in 1..Len(state_.collection) :
      RecordOf(i)[3] = Join(MissingTerms(i), <<" ">>)

\* the whitespace-delimited tokens of a text, in order
Tokens(s) ==
  LET NonEmpty(piece) == piece # <<>>
  IN SelectSeq(split(s, <<" ">>), NonEmpty)

\* C14: once the search terms are computed for the accumulated search text,
\* they are exactly its whitespace-delimited tokens in order, lower-cased
\* unless case-sensitive comparison is enabled; every term is a non-empty
\* text containing no blank.
C14_Tokens ==
  state_.ready =>
    /\ \A j \in 1..Len(state_.searchTerms) :
         /\ state_.searchTerms[j] # <<>>
         /\ \A i \in 1..Len(state_.searchTerms[j]) : state_.searchTerms[j][i] # " "
    /\ state_.searchTerms = Tokens(Folded(state_.searchText))

\* the i-th item of the Collection satisfies a filter <<key, operator, value>>
Satisfies(i, filter) ==
  filterTest(filter[2], getProperty(state_.collection[i].item, filter[1]), filter[3])

\* the number of accumulated filters the i-th item satisfies
Satisfied(i) ==
  Cardinality({j \in 1..Len(state_.filters) : Satisfies(i, state_.filters[j])})

C16_MatchAll ==
  state_.complete =>
    \A i \in 1..Len(state_.collection) :
      RecordOf(i) \in Records(state_.matches) =>
        /\ state_.collection[i].item.t = "rec" => Satisfied(i) = Len(state_.filters)
        /\ RecordOf(i)[3] = <<>>

\* the canonical triple of a filter: the operator it was given with, '=='
\* when it was given without one ([key, value] or { key, value })
CanonicalTriple(c) ==
  IF c.form = "array"
  THEN (IF c.c2.ty = "undefined" THEN <<c.c0, Str(<<"=","=">>), c.c1>>
        ELSE <<c.c0, c.c1, c.c2>>)
  ELSE (IF c.c1.ty = "undefined" THEN <<c.c0, Str(<<"=","=">>), c.c2>>
        ELSE <<c.c0, c.c1, c.c2>>)

\* C17: every accumulated filter is the canonical triple of a filter that
\* was supplied: (key, '==', value) for a filter given without an operator,
\* in the 2-element array form and in the named-fields form, and the triple
\* with its own operator for a filter given with one.
C17_Canonical ==
  \A j \in 1..Len(state_.filters) :
    state_.filters[j] \in { CanonicalTriple(c) : c \in FilterForms }

\* the value a filter was supplied with
SuppliedValue(c) ==
  IF c.form = "array" /\ c.c2.ty = "undefined" THEN c.c1 ELSE c.c2

\* the accumulated constraints of st are those of the text or filter c alone
OnlyConstraint(st, c) ==
  CASE c.form = "text" -> st.searchText = trim(c.text) /\ st.filters = <<>>
    [] c.form \in {"array", "object"} ->
         /\ st.searchText = <<>>
         /\ Len(st.filters) = 1
         /\ st.filters[1][1] = c.c0
         /\ st.filters[1][3] = SuppliedValue(c)
    [] OTHER -> TRUE

\* C18: every step that is a for(c) call leaves exactly the constraints of c
\* (the search text trim(c) and no filters for a text, an empty search text
\* and the single filter for a filter) and leaves the key restriction and the
\* case, sort and stats settings as they were.
C18_ForReplaces ==
  [][\A c \in FixedConstraints :
       (state_' = for_(state_, c) /\ thrown' = "none") =>
         /\ OnlyConstraint(state_', c)
         /\ state_'.keys = state_.keys
         /\ settings_' = settings_]_vars

\* for('a') has replaced a filter and a text (the cache still holds the
\* threshold 2 of their pass) on an instance with sorting enabled and a key
\* restriction: the filter is gone, the keys and settings are kept
C18_Witness ==
  /\ ~state_.ready
  /\ state_.threshold = 2
  /\ state_.searchText = <<"a">>
  /\ state_.filters = <<>>
  /\ state_.keys # <<>>
  /\ settings_.sort

\* C19: every step that is a for(x) or and(x) call with x neither text,
\* array nor object (a number, boolean or undefined; null) does not throw
\* and leaves the accumulated search text, filters and keys, and the result
\* of every accessor, as they were.
C19_InvalidNoOp ==
  [][\A x \in InvalidConstraints :
       (state_' = for_(state_, x) \/ state_' = and_(state_, x)) =>
         /\ thrown' = "none"
         /\ state_'.searchText = state_.searchText
         /\ state_'.filters = state_.filters
         /\ state_'.keys = state_.keys
         /\ getMatches(state_', settings_', laterFirst').value
              = getMatches(state_, settings_, laterFirst).value
         /\ getPartialMatches(state_', settings_', laterFirst').value
              = getPartialMatches(state_, settings_, laterFirst).value
         /\ getAllMatches(state_', settings_', laterFirst').value
              = getAllMatches(state_, settings_, laterFirst).value
         /\ getAllItems(state_', settings_', laterFirst').value
              = getAllItems(state_, settings_, laterFirst).value
         /\ getLength(state_', settings_', laterFirst').value
              = getLength(state_, settings_, laterFirst).value]_vars

\* C20: search(x) does not throw, and on an instance that recorded the
\* error flag (x neither a sequence nor a mapping) there is a message, the
\* Collection is empty and .matches, .partialMatches, .allMatches and
\* .allItems return an empty result and .length 0, whatever constraints
\* have been accumulated.
C20_SearchSafe ==
  /\ thrown # "search"
  /\ state_.error =>
       /\ state_.errorMessage # <<>>
       /\ state_.collection = <<>>
       /\ getMatches(state_, settings_, laterFirst).value.entries = <<>>
       /\ getPartialMatches(state_, settings_, laterFirst).value.entries = <<>>
       /\ getAllMatches(state_, settings_, laterFirst).value.entries = <<>>
       /\ getAllItems(state_, settings_, laterFirst).value.entries = <<>>
       /\ getLength(state_, settings_, laterFirst).value = 0


\* the reaction jobs of promise i still queued
Pending(i) == Cardinality({j \in 1..Len(jobs) : jobs[j].promise = i})

\* promise i was settled as the instance's error flag says, its callbacks
\* were invoked at most once in all, and never the one of the other outcome
SettledOnce(i) ==
  /\ promises[i].settled = (IF state_.error THEN "rejected" ELSE "fulfilled")
  /\ promises[i].settled = "rejected" =>
        /\ promises[i].reason = state_.errorMessage
        /\ promises[i].success = 0
        /\ promises[i].onFailure => promises[i].failure + Pending(i) = 1
  /\ promises[i].settled = "fulfilled" =>
        /\ promises[i].failure = 0
        /\ promises[i].onSuccess => promises[i].success + Pending(i) = 1

\* C21: every then(onSuccess, onFailure) call settles exactly once.  On an
\* instance whose collection was invalid the promise is rejected with the
\* recorded error message and the failure callback is invoked exactly once,
\* the success callback never; on a valid instance the success callback is
\* invoked exactly once, the failure callback never.  The step of then()
\* itself invokes no callback and leaves the caller on the same instance,
\* and every queued callback is eventually invoked.
C21_SettlesOnce ==
  /\ [](\A i \in 1..Len(promises) : SettledOnce(i))
  /\ [][Len(promises') > Len(promises) =>
         /\ this' = this
         /\ promises'[Len(promises')].success = 0
         /\ promises'[Len(promises')].failure = 0
         /\ \A i \in 1..Len(promises) : promises'[i] = promises[i]]_vars
  /\ \A i \in 1..MaxThens : (Len(promises) >= i) ~> (Len(promises) >= i /\ Pending(i) = 0)

\* then(ok, fail) was called twice on an invalid instance and both failure
\* callbacks have been invoked
C21_Witness ==
  /\ state_.error
  /\ Len(promises) = 2
  /\ jobs = <<>>
  /\ \A i \in 1..2 : promises[i].onSuccess /\ promises[i].onFailure /\ promises[i].failure = 1

\* then(ok, fail) was called on a valid instance, a constraint was added
\* and the success callback has been invoked
C21_WitnessValid ==
  /\ ~state_.error
  /\ state_.searchText # <<>>
  /\ Len(promises) >= 1
  /\ promises[1].onSuccess /\ promises[1].onFailure /\ promises[1].success = 1

\* the synchronous accessor of the name, as [st, value]
ViewOf(name) ==
  CASE name = "matches" -> getMatches(state_, settings_, laterFirst)
    [] name = "partialMatches" -> getPartialMatches(state_, settings_, laterFirst)
    [] OTHER -> getAllMatches(state_, settings_, laterFirst)

\* a success callback has been invoked: its caller holds the resolved object
Delivered == \E i \in 1..Len(promises) : promises[i].success > 0

\* C22: the object handed to the success callback of then() gives the three
\* derived views under the names matches, partialMatches and allMatches:
\* reading each name returns what the accessor of that name returns.
C22_Views ==
  Delivered =>
    \A name \in { "matches", "partialMatches", "allMatches" } :
      resultGet(state_, settings_, laterFirst, name).value = ViewOf(name).value

\* C23: the result delivered to the success callback is the one computed
\* when then() was called.  then() brings the views up to date before it
\* returns, so this says: while the success callback of a then() call has
\* not run yet, no call that changes the constraints changes what the
\* getters of the object it will be given return.
C23_ComputedAtThen ==
  [][(/\ jobs # <<>>
      /\ Head(jobs).handler = "success"
      /\ Len(jobs') >= Len(jobs)
      /\ settings_' = settings_) =>
       \A name \in ResultGetters :
         resultGet(state_', settings_', laterFirst', name).value
           = resultGet(state_, settings_, laterFirst, name).value]_vars

RECURSIVE NextCalls(_, _)
\* the results of n successive calls of next on an instance in state st
NextCalls(st, n) ==
  IF n = 0 THEN <<>>
  ELSE << next_(st, settings_) >> \o NextCalls(next_(st, settings_).st, n - 1)

\* the request for an iteration and the calls of next that follow it yield
\* the items of list, each once and in that order, then report done, and
\* none of them throws
YieldsAll(st, list) ==
  /\ ~iterator_(st, settings_).threw
  /\ \E calls \in { NextCalls(iterator_(st, settings_).st, Len(list) + 1) } :
       /\ \A i \in 1..Len(list) + 1 : ~calls[i].threw
       /\ \A i \in 1..Len(list) : ~calls[i].done /\ calls[i].value = list[i].item
       /\ calls[Len(list) + 1].done

\* C24: an iteration request followed by calls of next yields exactly the
\* full matches, each once, in the order of .matches, as the item .matches
\* returns for it, and then reports done; neither the request nor a call
\* of next throws.
C24_Iteration ==
  /\ thrown # "iterator"
  /\ thrown = "none" =>
       YieldsAll(state_, getMatches(state_, settings_, laterFirst).value.entries)

\* C25: iteration is restartable: after next was called k times on an
\* up-to-date instance (k at most the number of full matches), a new
\* iteration request with the constraints unchanged starts again from the
\* first match and yields every full match.
C25_Restartable ==
  (thrown = "none" /\ state_.complete) =>
    \A k \in 0..state_.totalMatches :
      \E consumed \in { [state_ EXCEPT !.index = k] } :
        /\ ~iterator_(consumed, settings_).threw
        /\ iterator_(consumed, settings_).st.index = 0
        /\ YieldsAll(consumed, getMatches(state_, settings_, laterFirst).value.entries)

\* the keys of the match records of the last pass that are in neither the
\* full nor the partial matches
Excluded(st) == Keys(st.allItems) \ (Keys(st.matches) \cup Keys(st.partial))

\* value has the shape the collection was given in and holds exactly the
\* items of keys: as an array, its elements 0, 1, ... are items of those
\* keys, one per key; as an object, its property names are those keys, each
\* once, and each holds the item the collection has under that name
OriginalShape(value, keys, coll) ==
  /\ value.shape = settings_.collectionType
  /\ Len(value.entries) = Cardinality(keys)
  /\ value.shape = "array" =>
       /\ \A i \in 1..Len(value.entries) :
            /\ value.entries[i].key = i - 1
            /\ \E k \in keys : value.entries[i].item = collectionGet(coll, k)
       /\ \A k \in keys :
            \E i \in 1..Len(value.entries) : value.entries[i].item = collectionGet(coll, k)
  /\ value.shape = "object" =>
       /\ {value.entries[i].key : i \in 1..Len(value.entries)} = keys
       /\ \A i \in 1..Len(value.entries) :
            value.entries[i].item = collectionGet(coll, value.entries[i].key)

\* an array value lists the items of the match list in the list's order
InListOrder(value, list, coll) ==
  value.shape = "array" =>
    \A i \in 1..Len(list) : value.entries[i].item = collectionGet(coll, list[i][1])

\* C26: every accessor returns the collection's original shape.  An
\* instance made from an array has collection type array, one made from an
\* object has collection type object, and no call changes the type.  A read
\* of an array collection returns an array of the items in match-list order;
\* a read of an object collection returns an object holding each returned
\* item under its original key.  .matches holds exactly the keys of the full
\* matches, .partialMatches those of the partial matches, .allItems every
\* key, and .allMatches the Collection keys minus the excluded ones.
C26_OriginalShape ==
  /\ \A input \in { TextArray, RecordObject } :
       state_ = search(input, 1).state_ => settings_.collectionType = input.shape
  /\ [][settings_'.collectionType = settings_.collectionType]_vars
  /\ [](thrown = "none" =>
          /\ \E r \in { getMatches(state_, settings_, laterFirst) } :
               /\ OriginalShape(r.value, Keys(r.st.matches), r.st.collection)
               /\ InListOrder(r.value, r.st.matches, r.st.collection)
          /\ \E r \in { getPartialMatches(state_, settings_, laterFirst) } :
               /\ OriginalShape(r.value, Keys(r.st.partial), r.st.collection)
               /\ InListOrder(r.value, r.st.partial, r.st.collection)
          /\ \E r \in { getAllItems(state_, settings_, laterFirst) } :
               /\ OriginalShape(r.value, CollectionKeys, r.st.collection)
               /\ InListOrder(r.value, r.st.allItems, r.st.collection)
          /\ \E r \in { getAllMatches(state_, settings_, laterFirst) } :
               OriginalShape(r.value, CollectionKeys \ Excluded(r.st), r.st.collection))

\* an object collection was read with full, partial and excluded items
C26_Witness ==
  /\ settings_.collectionType = "object"
  /\ state_.complete
  /\ state_.partial # <<>>
  /\ Excluded(state_) # {}

\* item carries { relevance, missing } of the match record: a record item
\* under the configured property name (once), an array item as its last
\* element; a text item is the item the collection held before the read
Carries(item, match, before) ==
  CASE item.t = "rec" ->
         /\ Cardinality({i \in 1..Len(item.props) :
                           item.props[i].k = settings_.inject.property}) = 1
         /\ \E i \in 1..Len(item.props) :
              /\ item.props[i].k = settings_.inject.property
              /\ item.props[i].v = StatsObj(match[2], match[3])
    [] item.t = "arr" ->
         /\ item.props # <<>>
         /\ item.props[Len(item.props)].v = StatsObj(match[2], match[3])
    [] OTHER -> item = before

\* every item of the value returned by a read that left state st is the
\* item of a match record of the pass and carries the stats of that record
AllCarry(r) ==
  \A i \in 1..Len(r.value.entries) :
    \E m \in Records(r.st.allItems) :
      /\ r.value.shape = "object" => m[1] = r.value.entries[i].key
      /\ r.value.entries[i].item = collectionGet(r.st.collection, m[1])
      /\ Carries(r.value.entries[i].item, m, collectionGet(state_.collection, m[1]))

\* the names SpecStats passes to withStats
StatsNames == { <<"s">> }

\* C27: with stats injection enabled at the time of a read, every item the
\* accessor returns carries the { relevance, missing } of its match record
\* of the current pass: under the configured property name (the default
\* 'searchResults' or the name given to withStats) for a record item, as
\* the last element for an array item; a text item is returned unmodified.
C27_StatsInjected ==
  /\ settings_.inject.property \in { InitialSettings.inject.property } \cup StatsNames
  /\ (thrown = "none" /\ settings_.inject.enabled) =>
       /\ AllCarry(getMatches(state_, settings_, laterFirst))
       /\ AllCarry(getPartialMatches(state_, settings_, laterFirst))
       /\ AllCarry(getAllMatches(state_, settings_, laterFirst))
       /\ AllCarry(getAllItems(state_, settings_, laterFirst))

\* with injection enabled under the name 's', a record item carries the
\* stats of an earlier read and the search text has changed since
C27_Witness ==
  /\ settings_.inject.enabled
  /\ settings_.inject.property = <<"s">>
  /\ ~state_.complete
  /\ state_.searchText # <<>>
  /\ \E i \in 1..Len(state_.collection) :
       /\ state_.collection[i].item.t = "rec"
       /\ \E j \in 1..Len(state_.collection[i].item.props) :
            /\ state_.collection[i].item.props[j].k = <<"s">>
            /\ state_.collection[i].item.props[j].v = StatsObj(0, <<>>)

\* no item of the value holds a { relevance, missing } object
NoStats(value) ==
  \A i \in 1..Len(value.entries) :
    \A j \in 1..Len(value.entries[i].item.props) :
      value.entries[i].item.props[j].v.ty # "obj"

\* C28: metadata injection is opt-in per read: whenever stats injection is
\* disabled at the time of a read, the items the accessor returns carry no
\* injected { relevance, missing }, whatever withStats()/withoutStats()
\* calls and reads came before.
C28_OptInPerRead ==
  (thrown = "none" /\ ~settings_.inject.enabled) =>
    /\ NoStats(getMatches(state_, settings_, laterFirst).value)
    /\ NoStats(getPartialMatches(state_, settings_, laterFirst).value)
    /\ NoStats(getAllMatches(state_, settings_, laterFirst).value)
    /\ NoStats(getAllItems(state_, settings_, laterFirst).value)

\* the keys of a collection in its order
KeyList(coll) == [i \in 1..Len(coll) |-> coll[i].key]

\* C29: while stats injection is not enabled no call (builder call, read,
\* then(), reaction job, sorting read) changes an item of the Collection,
\* and no call at all, with injection enabled or not, adds, removes or
\* reorders a key of the Collection.
C29_ItemsUntouched ==
  [][/\ ~settings_.inject.enabled => state_'.collection = state_.collection
     /\ KeyList(state_'.collection) = KeyList(state_.collection)]_vars

\* a sorted, constrained object of records has been read and a success
\* callback has run while stats injection has never touched an item
C29_Witness ==
  /\ settings_.sort
  /\ state_.complete
  /\ state_.searchTerms # <<>>
  /\ Delivered
  /\ settings_.collectionType = "object"
  /\ state_.collection = search(RecordObject, 1).state_.collection

\* C30: each search() call returns an instance with its own state_ and
\* settings_ objects, and a call made on one instance (a builder call or a
\* read) changes nothing of the other: its constraints, settings, cached
\* match lists and iteration cursor stay as they were.
C30_Independent ==
  /\ [](peer.refs.state_ # 0 =>
          /\ this.state_ # peer.refs.state_
          /\ this.settings_ # peer.refs.settings_)
  /\ [][this' = this =>
          /\ peer'.state_ = peer.state_
          /\ peer'.settings_ = peer.settings_]_vars

\* both instances have been read, with different search texts and sort
\* settings
C30_Witness ==
  /\ peer.refs.state_ # 0
  /\ state_.complete /\ peer.state_.complete
  /\ state_.searchText # peer.state_.searchText
  /\ settings_.sort # peer.settings_.sort
  /\ state_.index = 0 /\ state_.lastIndex # peer.state_.lastIndex

\* the keys of the entries of a returned value, in the value's order; for
\* an array value of the records of list, the keys of list
ReturnedKeys(value, list) ==
  IF value.shape = "array" THEN [i \in 1..Len(list) |-> list[i][1]]
  ELSE [i \in 1..Len(value.entries) |-> value.entries[i].key]

\* the number n of a record item, 0 for an item without it
ItemN(item) == getProperty(item, Str(<<"n">>)).n

\* C31 as claimed: the comparator set with sortUsing is invoked with the
\* two raw items being compared.  The comparator byItemN compares the n of
\* its two arguments, so after a pass with it the records of .matches are
\* in ascending order of n.
C31_RawItems ==
  (thrown = "none" /\ state_.complete /\ settings_.customSort = "byItemN"
     /\ settings_.collectionType = "object") =>
    \A i \in 1..Len(state_.matches) : \A j \in i..Len(state_.matches) :
      ItemN(getItem_(state_, state_.matches[i])) <= ItemN(getItem_(state_, state_.matches[j]))

Descending(keys) ==
  \A i \in 1..Len(keys) : \A j \in i..Len(keys) : keys[i] >= keys[j]

\* C31, amended: the comparator set with sortUsing is invoked with a lookup
\* function followed by the two match records being compared, and it is
\* applied after the default relevance sort whenever a list is sorted, also
\* when the sort toggle is off and when the instance is unconstrained.  The
\* comparator byKeyDesc compares the keys of the two match records, so with
\* it every accessor returns its items in descending key order.
C31_MatchRecords ==
  (thrown = "none" /\ settings_.customSort = "byKeyDesc") =>
    /\ \E r \in { getMatches(state_, settings_, laterFirst) } :
         Descending(ReturnedKeys(r.value, r.st.matches))
    /\ \E r \in { getPartialMatches(state_, settings_, laterFirst) } :
         Descending(ReturnedKeys(r.value, r.st.partial))
    /\ \E r \in { getAllItems(state_, settings_, laterFirst) } :
         Descending(ReturnedKeys(r.value, r.st.allItems))

\* an unconstrained instance with the sort toggle off was read with the
\* comparator byKeyDesc set
C31_Witness ==
  /\ settings_.customSort = "byKeyDesc"
  /\ ~settings_.sort
  /\ state_.complete
  /\ state_.searchTerms = <<>>
  /\ Len(state_.matches) >= 2
  /\ state_.matches[1][1] > state_.matches[2][1]

\* the three lists of st hold the same match records as those of state_
SameMembership(st) ==
  /\ Records(st.matches) = Records(state_.matches)
  /\ Len(st.matches) = Len(state_.matches)
  /\ Records(st.partial) = Records(state_.partial)
  /\ Len(st.partial) = Len(state_.partial)
  /\ Records(st.allItems) = Records(state_.allItems)
  /\ Len(st.allItems) = Len(state_.allItems)

\* C32: while the cache is complete a read runs no scoring pass: a step
\* from a complete state to a complete state leaves the records of matches,
\* partial and allItems, the total and the cursor as they were.  A scoring
\* pass runs only on the first read after an invalidating builder call: a
\* step that keeps searched set rescored nothing, and only a step that
\* clears complete (a builder call) clears searched.
C32_CacheShortCircuit ==
  [][/\ (state_.complete /\ state_'.complete) =>
          /\ SameMembership(state_')
          /\ state_'.totalMatches = state_.totalMatches
          /\ state_'.index = state_.index
          /\ state_'.lastIndex = state_.lastIndex
     /\ (state_.searched /\ state_'.searched) => SameMembership(state_')
     /\ (state_.searched /\ ~state_'.searched) => ~state_'.complete]_vars

\* a sorted, constrained cache with full and partial matches is complete
C32_Witness ==
  /\ state_.complete
  /\ settings_.sort
  /\ state_.matches # <<>>
  /\ state_.partial # <<>>

\* C33: the three cache flags are nested: complete implies searched, and
\* searched implies ready, after every builder call and every read.
C33_FlagsNested ==
  /\ state_.complete => state_.searched
  /\ state_.searched => state_.ready

\* compareCase() on a complete cache cleared complete and searched, not ready
C33_Witness ==
  /\ settings_.case
  /\ state_.ready
  /\ ~state_.searched
  /\ ~state_.complete
  /\ state_.searchText # <<>>

\* every call of next made on an instance in state st, however many, leaves
\* the cursor between 0 and the total and the totals as they are
CursorInRange(st) ==
  \A n \in 0..st.totalMatches + 2 :
    \A i \in 1..n :
      \E after \in { NextCalls(st, n)[i].st } :
        /\ after.index \in 0..st.totalMatches
        /\ after.totalMatches = st.totalMatches
        /\ after.lastIndex = st.lastIndex
        /\ after.matches = st.matches

\* C34: whenever the complete flag is set, totalMatches is the number of
\* records in matches, lastIndex is totalMatches - 1 and the cursor lies
\* between 0 and totalMatches, also after calls of next; and .length is
\* always the number of items .matches returns.
C34_Totals ==
  /\ state_.complete =>
       /\ state_.totalMatches = Len(state_.matches)
       /\ state_.lastIndex = state_.totalMatches - 1
       /\ state_.index \in 0..state_.totalMatches
       /\ CursorInRange(state_)
  /\ thrown = "none" =>
       \E m \in { getMatches(state_, settings_, laterFirst) } :
         getLength(state_, settings_, laterFirst).value = Len(m.value.entries)

\* a complete cache with full matches and items left out of them
C34_Witness ==
  /\ state_.complete
  /\ state_.totalMatches > 0
  /\ Len(state_.allItems) > state_.totalMatches

\* the sign of a comparator result
Sign(n) == IF n > 0 THEN 1 ELSE IF n < 0 THEN -1 ELSE 0

\* C35: the default sort comparator is a consistent ordering on match
\* records: for any two records a and b with distinct keys the sign of
\* compare(a, b) is the opposite of the sign of compare(b, a), and
\* compare(a, b) is 0 only when a and b have equal relevance and equal key.
C35_ConsistentOrdering ==
  \A a, b \in Records(state_.allItems) :
    /\ a[1] # b[1] =>
         Sign(sortComparator_(a, b)) = 0 - Sign(sortComparator_(b, a))
    /\ sortComparator_(a, b) = 0 => (a[2] = b[2] /\ a[1] = b[1])

\* the subject the specification describes for an item under the key list
\* keys, before case folding: the text itself; without keys the elements of
\* a sequence or the own values of a record joined with '|'; with keys the
\* string form of each listed property the item has, empty for one it
\* lacks, joined with '|'
DescribedSubject(item, keys) ==
  IF item.t = "text" THEN item.s
  ELSE IF keys = <<>>
       THEN IF item.t = "arr"
            THEN Join([i \in 1..Len(item.props) |-> JoinText(item.props[i].v)], <<"|">>)
            ELSE Join([i \in 1..Len(item.props) |-> ToString(item.props[i].v)], <<"|">>)
       ELSE Join([i \in 1..Len(keys) |->
                    IF \E j \in 1..Len(item.props) : item.props[j].k = keys[i]
                    THEN JoinText(getProperty(item, Str(keys[i])))
                    ELSE <<>>], <<"|">>)

\* the described subject of every item is the subject the engine scores in
\* state st, and the record of a pass counts the terms inside it only
ScoresDescribedSubject(st) ==
  \A i \in 1..Len(st.collection) :
    \E e \in { st.collection[i] } :
      \E described \in { IF settings_.case THEN DescribedSubject(e.item, st.keys)
                          ELSE toLowerCase(DescribedSubject(e.item, st.keys)) } :
        /\ subjectOf(e.item, st, settings_) = described
        /\ matchOf(st, settings_, e.item, e.key) =
             applyTerms(applyFilters(e.item, <<e.key, 0, <<>> >>, st.filters, 1),
                        described, st.searchTerms, 1)

\* C36: with no key restriction, the subject of a text item is the text
\* itself, of a sequence item its elements joined with '|', and of a
\* mapping-like item exactly its own enumerable values joined with '|', with
\* no separator before the first value or after the last; a search term is
\* counted only inside that string.
C36_SubjectNoKeys ==
  (thrown = "none" /\ state_.keys = <<>>) =>
    ScoresDescribedSubject(updateConstraints_(state_, settings_))

\* C37: with keys restricted to a list K, the subject of a non-text item is
\* the values of its K-properties, in K order, joined with '|': every
\* property the item has contributes the string form of its value (0 and
\* the empty string included) and only a property the item lacks
\* contributes the empty placeholder; in(K) replaces the list, or(K')
\* appends to it, and both leave the search text and filters unchanged.
C37_SubjectWithKeys ==
  thrown = "none" =>
    /\ state_.keys # <<>> =>
         ScoresDescribedSubject(updateConstraints_(state_, settings_))
    /\ \A k \in SubjectKeys :
         /\ in_(state_, k).keys = k.list
         /\ or_(state_, k).keys = state_.keys \o k.list
         /\ in_(state_, k).searchText = state_.searchText
         /\ or_(state_, k).searchText = state_.searchText
         /\ in_(state_, k).filters = state_.filters
         /\ or_(state_, k).filters = state_.filters

\* the item as the caller supplied it: without the { relevance, missing }
\* objects that reads with stats injection have added to it
IsCallerValue(p) == p.v.ty # "obj"

OriginalContent(item) == [item EXCEPT !.props = SelectSeq(@, IsCallerValue)]

\* C38: metadata injected into an item by an earlier read with stats enabled
\* never changes that item's subject or relevance in a later classification
\* pass: the record a pass builds for an item is the record it builds for
\* the item's original content under the current constraints.
C38_MetadataNotScored ==
  thrown = "none" =>
    \E st \in { updateConstraints_(state_, settings_) } :
      \A i \in 1..Len(st.collection) :
        \E e \in { st.collection[i] } :
          /\ subjectOf(e.item, st, settings_) =
               subjectOf(OriginalContent(e.item), st, settings_)
          /\ matchOf(st, settings_, e.item, e.key) =
               matchOf(st, settings_, OriginalContent(e.item), e.key)

\* the instance the module of src/src returns for search(items) when it was
\* just loaded: nothing of an earlier chain is in it
CleanSlate(items) ==
  SearchLight_search_(SearchLight_state_, SearchLight_settings_, items)

\* what the caller reads through an instance: .matches, .allItems, .length
ReadsOf(sl) ==
  << SearchLight_matches(sl.state_, sl.settings_, laterFirst).value,
     SearchLight_allItems(sl.state_, sl.settings_, laterFirst).value,
     SearchLight_length(sl.state_, sl.settings_, laterFirst).value >>

\* the instance a reference obtained earlier (the object at the addresses
\* of this) denotes once search has returned sl: the object sl itself when
\* that is the same object, else the instance as it was
EarlierValue(sl) ==
  IF sl.refs = this THEN sl
  ELSE [state_ |-> state_, settings_ |-> settings_, refs |-> this]

\* C39: in src/src/search-light.js, a search(c2) call made after an earlier
\* search(c1) chain fully replaces the collection and starts from a clean
\* slate: results read afterwards depend only on c2, the search text, key
\* restriction, collection shape tag and error flag left by the c1 chain do
\* not carry over, and the value returned by search(c1) is not affected by
\* search(c2).
C39_CleanSlate ==
  \A c2 \in SingletonInputs :
    \E sl \in { SearchLight_search_(state_, settings_, c2) } :
      /\ sl.state_.collection = CleanSlate(c2).state_.collection
      /\ sl.state_.searchText = CleanSlate(c2).state_.searchText
      /\ sl.state_.properties = CleanSlate(c2).state_.properties
      /\ sl.settings_.collectionType = CleanSlate(c2).settings_.collectionType
      /\ sl.state_.error = CleanSlate(c2).state_.error
      /\ ReadsOf(sl) = ReadsOf(CleanSlate(c2))
      /\ ReadsOf(EarlierValue(sl)) =
           ReadsOf([state_ |-> state_, settings_ |-> settings_, refs |-> this])
====
